---- MODULE Spec2Model ----
(***************************************************************************)
(* Model of the q-trading execution orchestrator (QuantTradingAgent in     *)
(* quant_trading_agent.py), of the two brokers it drives (MockBroker in    *)
(* brokers/base_broker.py, IBBroker in brokers/ib_broker.py) and of the    *)
(* callback-driven market-data session (IBClient in brokers/ib_broker.py). *)
(*                                                                         *)
(* Money is counted in cents, so that the one-tick premium of              *)
(* _open_position (price + 0.01) is price + 1.                             *)
(***************************************************************************)
EXTENDS Integers, Sequences, FiniteSets, TLC

\* ------------------------------------------------------------------------
\* Bounds of the model
\* ------------------------------------------------------------------------
MaxCycles == 2
MaxMarketMoves == 1
MaxDirectCalls == 2
MaxFaults == 1
MaxCalls == 2
MaxCallbacks == 2
MaxHandshakes == 1
MaxPlacements == 2
MaxFacadeCalls == 2
MaxChanges == 1
MaxProviders == 2
MaxPositionCallbacks == 2
\* seconds that pass in one turn of a polling loop (the loops sleep 0.1 s a turn)
PollInterval == 5

\* the symbols whose market the environment moves and that clients trade directly
Volatile == {"SPY"}
InitialScore == [s \in {"SPY", "QQQ", "IWM"} |-> IF s = "QQQ" THEN 20 ELSE 10]
InitialPrice == 10000
MaxNewPositionsConfigs == {2, 5}

\* ------------------------------------------------------------------------
\* Configuration and program constants
\* ------------------------------------------------------------------------
Symbols == {"SPY", "QQQ", "IWM"}
\* config 'symbols': every symbol of the model, or a list that leaves some out
ConfiguredSymbols == <<"SPY", "QQQ", "IWM">>
SymbolConfigs == {<<"SPY">>, <<"QQQ", "SPY", "QQQ">>}
Prices == {9500, 10000, 11500}
Scores == {-30, 10, 20}
\* the prices a client hands to check_risk_management: 6%, 5% and 4% under an entry
\* of 100.00, the entry itself, and 14%, 15%, 16% over it
RiskPrices == {9400, 9500, 9600, 10000, 11400, 11500, 11600}
Capitals == {3000, 10000000}
IBBuyingPowers == {12000, 40000000}

\* strategies/base.py: the values of the enum Signal
Signals == {"BUY", "SELL", "HOLD", "CLOSE_LONG", "CLOSE_SHORT"}
StopLossPct == 5
TakeProfitPct == 15
WeakSignalScore == -20
MaxTotalExposureNum == 4
MaxTotalExposureDen == 5
MockMargin == 4
MockDefaultPrice == 10000
MockPositionSizeNum == 1
MockPositionSizeDen == 5
IBPositionSizePct == 95
IBTotalCapital == 10000000
MockTotalCapital == 10000000
RecordedQuantity == 100
LimitPremium == 1

\* IBClient: tick types, timeouts of the blocking wrappers (seconds)
TICK_BID == 1
TICK_LAST == 4
TICK_HIGH == 6
TICK_LOW == 7
TICK_CLOSE == 9
TICK_DELAYED_LAST == 68
TICK_DELAYED_HIGH == 72
MarketDataTimeout == 5
HistoricalDataTimeout == 10
SessionSymbols == {"QQQ", "AAPL"}
TickPrices == {10000, 10100}
TickTypes == {TICK_BID, TICK_LAST, TICK_HIGH, TICK_LOW, TICK_CLOSE, TICK_DELAYED_LAST, TICK_DELAYED_HIGH}
ErrorCodes == {200, 2104}

\* IBBroker: the wait of connect() for the handshake (seconds), the order ids
\* that nextValidId delivers, the threads that place orders
ConnectTimeout == 10
OrderIdSeeds == {1, 3}
Threads == {"t1", "t2"}
OrderTypes == {"MKT", "LMT", "STP", "STP LMT", "TRAIL"}
Quantities == {0, 10}
LimitPrices == {0, 10001}
StopPrices == {0, 9500}
HoldingSymbols == {"QQQ", "TQQQ"}
\* the symbols validate_order is called with: held and quoted by the session
ValidateSymbols == {"QQQ"}
ProviderAnswers == {"data", "empty", "None", "raises"}
\* positional parameters of MultiProviderDataSource.get_historical_data after self
ChainPositionals == 2
\* positional arguments of the call in fetch_market_data: symbol, days, interval
FetchPositionals == 3
\* the arguments of execute_position_change
OldPositions == {"QQQ", "TQQQ", "Cash", "None"}
NewPositions == {"QQQ", "TQQQ", "Cash"}
PriceDicts == [qqq_price : {0, 10000}, tqqq_price : {0, 10000}]
ValidateQuantities == {0, 10, 100}
\* the last price that answers a snapshot request; 0: no answer before the timeout
SnapshotAnswers == {0, 10000}
\* what can go wrong in the body of the analysis loop for a symbol: nothing,
\* calculate_signals raises, the journal write of a risk-triggered close raises
AnalysisOutcomes == {"ok", "raises", "close_raises"}
\* a position is a float (line 420): the model counts it in tenths of a share
ShareUnit == 10
\* short 50 shares, flat, half a share, long 100 shares
PositionQuantities == {-500, 0, 5, 1000}

VARIABLES
    dry_run,            \* QuantTradingAgent.dry_run
    max_new_positions,  \* config max_new_positions
    broker_kind,        \* "mock" (MockBroker) or "ib" (IBBroker)
    total_capital,      \* broker config total_capital
    config_symbols,     \* QuantTradingAgent.symbols (config 'symbols')
    symbols_to_analyze, \* run_analysis_cycle: symbols_to_analyze (as a set: the order is not fixed)
    positions,          \* QuantTradingAgent.positions
    journal,            \* the trade journal written by _log_trade
    connected,          \* MockBroker.connected / IBBroker.connected
    link_up,            \* IBClient.isConnected() (always TRUE for MockBroker)
    broker_positions,   \* MockBroker.positions / IBClient.positions
    account_summary,    \* IBClient.account_info (BuyingPower, NetLiquidation)
    next_order_id,      \* MockBroker.next_order_id / IBClient.next_order_id
    orders,             \* orders accepted by the broker, in order of placement
    price, score, has_data,   \* what the provider chain and the strategy return
    analysis,           \* what goes wrong when a symbol is analysed ("ok": nothing)
    pc,                 \* position of run_analysis_cycle
    account_info,       \* run_analysis_cycle: account_info
    symbol_scores,      \* run_analysis_cycle: symbol_scores
    available_buying_power,   \* run_analysis_cycle: available_buying_power
    positions_to_open,  \* run_analysis_cycle: positions_to_open
    position_value_each,\* run_analysis_cycle: position_value_each
    trace,              \* history: calls made since the current cycle began
    op,                 \* history: the operation that made the last step
    cycles, moves, direct, faults,   \* history: counters that bound the model
    cycle_start, prev_start,  \* history: inputs seen at the start of the cycles
    cycle_orders,       \* history: place_order/close_position calls of the current cycle
    faulted, prev_faulted,    \* history: was the run disturbed (fault, direct call, loss)
    market_data,        \* IBClient.market_data (None is 0: every price is positive)
    data_received,      \* IBClient.data_received
    active_requests,    \* IBClient.active_requests ("none": no market-data request under the id)
    next_req_id,        \* IBClient.next_req_id
    requested,          \* history: the request ids that reqMktData was called with
    historical_data,    \* IBClient.historical_data (number of bars per request)
    historical_data_end,\* IBClient.historical_data_end
    lock_holder,        \* the thread that holds IBClient._lock across steps
    call,               \* the blocking wrapper call of the caller thread
    calls, callbacks,   \* history: counters that bound the model
    socket_up,          \* IBClient.isConnected() while IBBroker.connect() runs
    client_connected,   \* IBClient.connected
    ib_connected,       \* IBBroker.connected before and during connect()
    client_next_order_id,     \* IBClient.next_order_id as the threads of IBBroker see it
    connect_call,       \* the IBBroker.connect() call
    delivered,          \* history: the orderId of a nextValidId that nothing has followed yet (else 0)
    placer,             \* the threads inside IBBroker.place_order / place_bracket_order
    placed,             \* history: the order ids that IBClient.placeOrder was called with
    reused,             \* history: placeOrder was called with an id that it had been called with
    handshakes, placements,   \* history: counters that bound the model
    providers,          \* MultiProviderDataSource.providers: what each provider would answer
    fetched,            \* the last call of the provider chain and what it returned
    client_positions,   \* IBClient.positions as the methods of IBBroker read it
    lock,               \* the thread that holds IBClient.lock ("none": free)
    facade,             \* the IBBroker method that the caller thread is in
    facade_calls, position_callbacks   \* history: counters that bound the model

vars == <<dry_run, max_new_positions, broker_kind, total_capital, config_symbols,
          symbols_to_analyze, positions, journal, connected,
          link_up, broker_positions, account_summary, next_order_id, orders,
          price, score, has_data, analysis, pc, account_info, symbol_scores,
          available_buying_power, positions_to_open, position_value_each,
          trace, op, cycles, moves, direct, faults, cycle_start, prev_start,
          cycle_orders, faulted, prev_faulted,
          market_data, data_received, active_requests, next_req_id, requested, historical_data,
          historical_data_end, lock_holder, call, calls, callbacks,
          socket_up, client_connected, ib_connected, client_next_order_id, connect_call,
          delivered, placer, placed, reused, handshakes, placements,
          providers, fetched,
          client_positions, lock, facade, facade_calls, position_callbacks>>

Session == <<market_data, data_received, active_requests, next_req_id, requested, historical_data,
             historical_data_end, lock_holder, call, calls, callbacks>>

Gateway == <<socket_up, client_connected, ib_connected, client_next_order_id, connect_call,
             delivered, placer, placed, reused, handshakes, placements>>

Facade == <<client_positions, lock, facade, facade_calls, position_callbacks>>

Chain == <<providers, fetched>>

\* ------------------------------------------------------------------------
\* Small helpers
\* ------------------------------------------------------------------------
Max(a, b) == IF a >= b THEN a ELSE b

Abs(a) == IF a >= 0 THEN a ELSE -a

\* list(set(...)) iterates in an order that depends on the hash seed: the model
\* takes the two orders that put every pair of symbols both ways round
AnalysisOrders == {<<"SPY", "QQQ", "IWM">>, <<"IWM", "QQQ", "SPY">>}

\* the orders in which the loop of line 707 may go through a set of symbols
OrdersOf(S) == {LET Member(s) == s \in S IN SelectSeq(order, Member) : order \in AnalysisOrders}

\* the configured symbols alone
ConfiguredOnly(symbols, pos) == {symbols[i] : i \in 1..Len(symbols)}

\* lines 692 and 697: set(self.symbols + current_position_symbols), the latter
\* being the symbols whose entry has has_position (lines 635-641)
SymbolsToAnalyze(symbols, pos) ==
    {symbols[i] : i \in 1..Len(symbols)}
       \cup {s \in DOMAIN pos : pos[s].tracked /\ pos[s].has_position}

NoPosition == [tracked |-> FALSE, has_position |-> FALSE, entry_price |-> 0, quantity |-> 0]

NoBrokerPosition == [present |-> FALSE, quantity |-> 0, avg_cost |-> 0, market_value |-> 0]

NoOrder == [ok |-> FALSE, id |-> 0]

NoValue == [some |-> FALSE, num |-> 0, den |-> 1]

NoFault == [raising |-> {}, md_ok |-> TRUE]

Faults == {NoFault, [raising |-> Symbols, md_ok |-> TRUE], [raising |-> {}, md_ok |-> FALSE]}

\* the faults the broker in use can show: MockBroker never raises and never times out
BrokerFaults == IF broker_kind = "ib" /\ faults < MaxFaults THEN Faults ELSE {NoFault}

FaultCount(inp) == IF inp = NoFault THEN 0 ELSE 1

Details(s) == [price |-> price[s], score |-> score[s]]

\* the state that one orchestrator step threads through its calls
World == [positions |-> positions, journal |-> journal, broker_positions |-> broker_positions,
          next_order_id |-> next_order_id, orders |-> orders, trace |-> trace,
          symbol_scores |-> symbol_scores, ret |-> NoOrder]

\* ------------------------------------------------------------------------
\* Brokers
\* ------------------------------------------------------------------------
IsConnected == connected /\ link_up

BrokerQuantity(w, s) == IF w.broker_positions[s].present THEN w.broker_positions[s].quantity ELSE 0

RECURSIVE SumOver(_, _)
SumOver(S, f) == IF S = {} THEN 0 ELSE LET x == CHOOSE y \in S : TRUE IN f[x] + SumOver(S \ {x}, f)

GetBuyingPower(w) ==
    IF broker_kind = "mock" THEN total_capital * MockMargin
    ELSE IF account_summary.present THEN account_summary.buying_power ELSE 0

GetAccountValue(w) ==
    IF broker_kind = "mock"
    THEN total_capital + SumOver({s \in Symbols : w.broker_positions[s].present},
                                 [s \in Symbols |-> w.broker_positions[s].market_value])
    ELSE IF account_summary.present THEN account_summary.net_liquidation ELSE total_capital

GetAccountBalance(w) ==
    IF broker_kind = "mock" THEN total_capital
    ELSE IF account_summary.present THEN account_summary.cash ELSE 0

CalculateShares(w, s, current_price) ==
    IF broker_kind = "mock"
    THEN (total_capital * MockPositionSizeNum) \div (MockPositionSizeDen * current_price)
    ELSE Max(1, (GetAccountValue(w) * IBPositionSizePct) \div (100 * current_price))

ValidateOrder(w, s, action, quantity, inp) ==
    IF broker_kind = "mock"
    THEN quantity > 0
    ELSE /\ connected
         /\ quantity > 0
         /\ inp.md_ok
         /\ (action = "BUY" => quantity * price[s] <= GetBuyingPower(w))
         /\ (action = "SELL" => BrokerQuantity(w, s) >= quantity)

MockPlaceOrder(w, s, action, quantity, order_type, limit_price) ==
    LET order_id == w.next_order_id
        sign == IF action = "BUY" THEN 1 ELSE -1
        new_qty == BrokerQuantity(w, s) + sign * quantity
        px == IF limit_price = 0 THEN MockDefaultPrice ELSE limit_price
    IN [w EXCEPT !.next_order_id = order_id + 1,
                 !.orders = Append(@, [order_id |-> order_id, symbol |-> s, action |-> action,
                                       quantity |-> quantity, order_type |-> order_type,
                                       limit_price |-> limit_price, filled |-> TRUE]),
                 !.trace = Append(@, [fn |-> "place_order", symbol |-> s, action |-> action,
                                      quantity |-> quantity, price |-> price[s], entry_price |-> 0,
                                      journal_len |-> Len(w.journal), ok |-> TRUE]),
                 !.broker_positions[s] =
                     IF new_qty = 0 THEN NoBrokerPosition
                     ELSE [present |-> TRUE, quantity |-> new_qty, avg_cost |-> px,
                           market_value |-> new_qty * px],
                 !.ret = [ok |-> TRUE, id |-> order_id]]

IBPlaceOrder(w, s, action, quantity, order_type, limit_price, inp) ==
    IF ~connected \/ quantity <= 0 \/ (order_type = "LMT" /\ limit_price = 0)
    THEN [w EXCEPT !.ret = NoOrder,
                   !.trace = Append(@, [fn |-> "place_order", symbol |-> s, action |-> action,
                                        quantity |-> quantity, price |-> price[s], entry_price |-> 0,
                                      journal_len |-> Len(w.journal), ok |-> FALSE])]
    ELSE LET order_id == w.next_order_id IN
         IF s \in inp.raising
         THEN [w EXCEPT !.next_order_id = order_id + 1,
                        !.ret = NoOrder,
                        !.trace = Append(@, [fn |-> "place_order", symbol |-> s, action |-> action,
                                             quantity |-> quantity, price |-> price[s], entry_price |-> 0,
                                      journal_len |-> Len(w.journal), ok |-> FALSE])]
         ELSE [w EXCEPT !.next_order_id = order_id + 1,
                        !.orders = Append(@, [order_id |-> order_id, symbol |-> s, action |-> action,
                                              quantity |-> quantity, order_type |-> order_type,
                                              limit_price |-> limit_price, filled |-> FALSE]),
                        !.trace = Append(@, [fn |-> "place_order", symbol |-> s, action |-> action,
                                             quantity |-> quantity, price |-> price[s], entry_price |-> 0,
                                      journal_len |-> Len(w.journal), ok |-> TRUE]),
                        !.ret = [ok |-> TRUE, id |-> order_id]]

PlaceOrder(w, s, action, quantity, order_type, limit_price, inp) ==
    IF broker_kind = "mock"
    THEN MockPlaceOrder(w, s, action, quantity, order_type, limit_price)
    ELSE IBPlaceOrder(w, s, action, quantity, order_type, limit_price, inp)

\* close_position: ret.ok is the boolean the broker returns
BrokerClosePosition(w, s, inp) ==
    LET w1 == [w EXCEPT !.trace = Append(@, [fn |-> "close_position", symbol |-> s, action |-> "SELL",
                                             quantity |-> Abs(BrokerQuantity(w, s)),
                                             price |-> price[s], entry_price |-> 0,
                                      journal_len |-> Len(w.journal), ok |-> TRUE])]
        qty == BrokerQuantity(w, s)
        action == IF qty > 0 THEN "SELL" ELSE "BUY"
    IN IF broker_kind = "mock"
       THEN IF w.broker_positions[s].present
            THEN MockPlaceOrder(w1, s, action, Abs(qty), "MKT", 0)
            ELSE [w1 EXCEPT !.ret = NoOrder]
       ELSE IF qty = 0
            THEN [w1 EXCEPT !.ret = [ok |-> TRUE, id |-> 0]]
            ELSE IBPlaceOrder(w1, s, action, Abs(qty), "MKT", 0, inp)

\* ------------------------------------------------------------------------
\* QuantTradingAgent: risk check, execute_signal, _open_position, _close_position
\* ------------------------------------------------------------------------
HasPosition(pos, s) == pos[s].tracked /\ pos[s].has_position

\* pnl_pct = (current_price - entry_price) / entry_price, compared in percent
CheckRiskManagementStrict(pos, s, current_price) ==
    IF ~HasPosition(pos, s) THEN "NONE"
    ELSE LET entry_price == pos[s].entry_price IN
         IF (current_price - entry_price) * 100 < -(StopLossPct * entry_price) THEN "SELL"
         ELSE IF (current_price - entry_price) * 100 >= TakeProfitPct * entry_price THEN "SELL"
         ELSE "NONE"

CheckRiskManagement(pos, s, current_price) ==
    IF ~HasPosition(pos, s) THEN "NONE"
    ELSE LET entry_price == pos[s].entry_price IN
         IF (current_price - entry_price) * 100 <= -(StopLossPct * entry_price) THEN "SELL"
         ELSE IF (current_price - entry_price) * 100 >= TakeProfitPct * entry_price THEN "SELL"
         ELSE "NONE"

LogTradeOverwrites(w, s, action, details) ==
    [w EXCEPT !.journal = <<[symbol |-> s, action |-> action, price |-> details.price,
                             dry_run |-> dry_run]>>]

LogTrade(w, s, action, details) ==
    [w EXCEPT !.journal = Append(@, [symbol |-> s, action |-> action, price |-> details.price,
                                     dry_run |-> dry_run])]

\* one entry of the call history
Event(w, fn, s, outcome) ==
    [fn |-> fn, symbol |-> s, action |-> outcome, quantity |-> 0, price |-> 0, entry_price |-> 0,
     journal_len |-> Len(w.journal), ok |-> outcome = "ok"]

RecordPosition(w, s, details) ==
    [w EXCEPT !.positions[s] = [tracked |-> TRUE, has_position |-> TRUE,
                                entry_price |-> details.price, quantity |-> RecordedQuantity]]

OpenPositionIgnoresRejection(w, s, details, position_value, inp) ==
    LET current_price == details.price
        limit_price == current_price + LimitPremium
        done(x) == LogTrade(RecordPosition([x EXCEPT !.trace = Append(@, Event(w, "_open_position", s, "ok"))],
                                           s, details), s, "BUY", details)
    IN IF dry_run THEN done(w)
       ELSE IF ~IsConnected
            THEN [w EXCEPT !.trace = Append(@, Event(w, "_open_position", s, "not_connected"))]
            ELSE LET quantity == IF position_value.some
                                 THEN Max(1, position_value.num \div (position_value.den * current_price))
                                 ELSE CalculateShares(w, s, current_price)
                     w0 == IF ValidateOrder(w, s, "BUY", quantity, inp) THEN w
                           ELSE [w EXCEPT !.trace = Append(@, Event(w, "_open_position", s, "invalid"))]
                     w1 == PlaceOrder(w0, s, "BUY", quantity, "LMT", limit_price, inp)
                 IN IF ~w1.ret.ok
                    THEN [w1 EXCEPT !.trace = Append(@, Event(w, "_open_position", s, "place_failed"))]
                    ELSE done(w1)

OpenPositionRecordsAnyway(w, s, details, position_value, inp) ==
    LET current_price == details.price
        limit_price == current_price + LimitPremium
        done(x) == LogTrade(RecordPosition([x EXCEPT !.trace = Append(@, Event(w, "_open_position", s, "ok"))],
                                           s, details), s, "BUY", details)
    IN IF dry_run THEN done(w)
       ELSE IF ~IsConnected
            THEN [w EXCEPT !.trace = Append(@, Event(w, "_open_position", s, "not_connected"))]
            ELSE LET quantity == IF position_value.some
                                 THEN Max(1, position_value.num \div (position_value.den * current_price))
                                 ELSE CalculateShares(w, s, current_price)
                 IN IF ~ValidateOrder(w, s, "BUY", quantity, inp)
                    THEN [w EXCEPT !.trace = Append(@, Event(w, "_open_position", s, "invalid"))]
                    ELSE LET w1 == PlaceOrder(w, s, "BUY", quantity, "LMT", limit_price, inp)
                         IN IF ~w1.ret.ok
                            THEN LogTrade(RecordPosition(
                                     [w1 EXCEPT !.trace = Append(@, Event(w, "_open_position", s, "place_failed"))],
                                     s, details), s, "BUY", details)
                            ELSE done(w1)

OpenPositionLive(w, s, details, position_value, inp) ==
    IF ~IsConnected
    THEN [w EXCEPT !.trace = Append(@, Event(w, "_open_position", s, "not_connected"))]
    ELSE PlaceOrder(w, s, "BUY", RecordedQuantity, "LMT", details.price + LimitPremium, inp)

OpenPosition(w, s, details, position_value, inp) ==
    LET current_price == details.price
        limit_price == current_price + LimitPremium
        done(x) == LogTrade(RecordPosition([x EXCEPT !.trace = Append(@, Event(w, "_open_position", s, "ok"))],
                                           s, details), s, "BUY", details)
    IN IF dry_run THEN done(w)
       ELSE IF ~IsConnected
            THEN [w EXCEPT !.trace = Append(@, Event(w, "_open_position", s, "not_connected"))]
            ELSE LET quantity == IF position_value.some
                                 THEN Max(1, position_value.num \div (position_value.den * current_price))
                                 ELSE CalculateShares(w, s, current_price)
                 IN IF ~ValidateOrder(w, s, "BUY", quantity, inp)
                    THEN [w EXCEPT !.trace = Append(@, Event(w, "_open_position", s, "invalid"))]
                    ELSE LET w1 == PlaceOrder(w, s, "BUY", quantity, "LMT", limit_price, inp)
                         IN IF ~w1.ret.ok
                            THEN [w1 EXCEPT !.trace = Append(@, Event(w, "_open_position", s, "place_failed"))]
                            ELSE done(w1)

ClearPositionForgotten(w, s) == w

ClearPosition(w, s) == [w EXCEPT !.positions[s].has_position = FALSE]

ClosePositionUnchecked(w, s, details, inp) ==
    IF ~HasPosition(w.positions, s)
    THEN [w EXCEPT !.trace = Append(@, Event(w, "_close_position", s, "no_position"))]
    ELSE LogTrade(ClearPosition([w EXCEPT !.trace = Append(@, Event(w, "_close_position", s, "ok"))], s),
                  s, "SELL", details)

ClosePosition(w, s, details, inp) ==
    IF ~HasPosition(w.positions, s)
    THEN [w EXCEPT !.trace = Append(@, Event(w, "_close_position", s, "no_position"))]
    ELSE LET quantity == w.positions[s].quantity
             done(x) == LogTrade(ClearPosition([x EXCEPT !.trace = Append(@, Event(w, "_close_position", s, "ok"))],
                                               s), s, "SELL", details)
         IN IF dry_run THEN done(w)
            ELSE IF ~IsConnected
                 THEN [w EXCEPT !.trace = Append(@, Event(w, "_close_position", s, "not_connected"))]
                 ELSE IF ~ValidateOrder(w, s, "SELL", quantity, inp)
                      THEN [w EXCEPT !.trace = Append(@, Event(w, "_close_position", s, "invalid"))]
                      ELSE LET w1 == BrokerClosePosition(w, s, inp)
                           IN IF ~w1.ret.ok
                              THEN [w1 EXCEPT !.trace = Append(@, Event(w, "_close_position", s, "place_failed"))]
                              ELSE done(w1)

ExecuteSignalUnguarded(w, s, signal, details, position_value, inp) ==
    LET w0 == [w EXCEPT !.trace = Append(@, [fn |-> "execute_signal", symbol |-> s, action |-> signal,
                                             quantity |-> 0, price |-> details.price, entry_price |-> 0,
                                      journal_len |-> Len(w.journal), ok |-> TRUE])]
    IN IF signal = "BUY" THEN OpenPosition(w0, s, details, position_value, inp)
       ELSE IF signal = "SELL" THEN ClosePosition(w0, s, details, inp)
       ELSE w0

ExecuteSignal(w, s, signal, details, position_value, inp) ==
    LET has_position == HasPosition(w.positions, s)
        w0 == [w EXCEPT !.trace = Append(@, [fn |-> "execute_signal", symbol |-> s, action |-> signal,
                                             quantity |-> 0, price |-> details.price, entry_price |-> 0,
                                      journal_len |-> Len(w.journal), ok |-> TRUE])]
    IN IF signal = "BUY" /\ ~has_position THEN OpenPosition(w0, s, details, position_value, inp)
       ELSE IF signal = "SELL" /\ has_position THEN ClosePosition(w0, s, details, inp)
       ELSE w0

\* ------------------------------------------------------------------------
\* refresh_and_display_portfolio_status
\* ------------------------------------------------------------------------
NoAccountInfo == [present |-> FALSE, net_liquidation |-> 0, cash_balance |-> 0,
                  buying_power |-> 0, total_position_value |-> 0]

\* get_all_positions returns a dict keyed by symbol in both brokers; iterating it
\* yields the keys, so p['symbol'] raises as soon as both tables are non-empty
RefreshRaises(w) ==
    /\ \E s \in Symbols : w.positions[s].tracked
    /\ \E s \in Symbols : w.broker_positions[s].present

\* MockBroker entries have no 'position' key; IBClient entries do
TotalPositionValue(w, inp) ==
    IF broker_kind = "mock" \/ ~inp.md_ok THEN 0
    ELSE SumOver({s \in Symbols : w.broker_positions[s].present /\ w.broker_positions[s].quantity # 0},
                 [s \in Symbols |-> Abs(w.broker_positions[s].quantity) * price[s]])

RefreshPositionsUnconnected(w) ==
    IF RefreshRaises(w) THEN w.positions
    ELSE [s \in Symbols |-> IF w.positions[s].tracked
                            THEN [w.positions[s] EXCEPT !.has_position = FALSE, !.quantity = 0]
                            ELSE w.positions[s]]

RefreshPositions(w) ==
    IF ~IsConnected \/ RefreshRaises(w) THEN w.positions
    ELSE [s \in Symbols |-> IF w.positions[s].tracked
                            THEN [w.positions[s] EXCEPT !.has_position = FALSE, !.quantity = 0]
                            ELSE w.positions[s]]

RefreshAccountInfo(w, inp) ==
    IF ~IsConnected \/ RefreshRaises(w) THEN NoAccountInfo
    ELSE [present |-> TRUE, net_liquidation |-> GetAccountValue(w),
          cash_balance |-> GetAccountBalance(w), buying_power |-> GetBuyingPower(w),
          total_position_value |-> TotalPositionValue(w, inp)]

\* net_liquidation * max_total_exposure - total_position_value, 0 for an empty account_info
CalculatedBuyingPower(info) ==
    (info.net_liquidation * MaxTotalExposureNum) \div MaxTotalExposureDen - info.total_position_value

\* ------------------------------------------------------------------------
\* run_analysis_cycle, one action per numbered step of the method
\* ------------------------------------------------------------------------
Snapshot == [price |-> price, score |-> score, has_data |-> has_data,
             broker_positions |-> broker_positions, is_connected |-> IsConnected]

RECURSIVE CountOrders(_)
CountOrders(t) ==
    IF t = <<>> THEN 0
    ELSE (IF Head(t).fn \in {"place_order", "close_position"} THEN 1 ELSE 0) + CountOrders(Tail(t))

\* _log_trade raises when it opens the journal (line 561): the record is not written
JournalWriteFails(before, after) == [after EXCEPT !.journal = before.journal]

\* lines 717-719 and 745-746: after a symbol that failed, the loop goes on with
\* the next symbol
BreakAfter(order, i) == Len(order) + 1

ContinueAfter(order, i) == i + 1

\* line 729, `if risk_signal:` : a signal of the risk rule closes at once
RiskNeverOverrides(risk_signal) == FALSE

RiskOverrides(risk_signal) == risk_signal = "SELL"

RECURSIVE AnalyzeLoop(_, _, _, _)
AnalyzeLoop(w, order, i, inp) ==
    IF i > Len(order) THEN w
    ELSE LET s == order[i]
             details == Details(s)
             risk_signal == CheckRiskManagement(w.positions, s, details.price)
             w0 == [w EXCEPT !.trace = Append(@, [fn |-> "check_risk_management", symbol |-> s,
                                                  action |-> risk_signal, quantity |-> 0,
                                                  price |-> details.price,
                                                  entry_price |-> w.positions[s].entry_price,
                                                  journal_len |-> Len(w.journal),
                                                  ok |-> HasPosition(w.positions, s)])]
         IN IF ~has_data[s] \/ analysis[s] = "raises"
            THEN AnalyzeLoop(w, order, ContinueAfter(order, i), inp)
            ELSE IF RiskOverrides(risk_signal)
                 THEN LET w1 == ExecuteSignal(w0, s, risk_signal, details, NoValue, inp)
                      IN IF analysis[s] = "close_raises" /\ w1.journal # w0.journal
                         THEN AnalyzeLoop(JournalWriteFails(w0, w1), order, ContinueAfter(order, i), inp)
                         ELSE AnalyzeLoop(w1, order, i + 1, inp)
                 ELSE AnalyzeLoop([w0 EXCEPT !.symbol_scores =
                                       Append(@, [symbol |-> s, score |-> details.score, details |-> details,
                                                  has_position |-> HasPosition(w.positions, s)])],
                                  order, i + 1, inp)

\* list.sort(key=score, reverse=True): stable, ties keep the order of analysis
RECURSIVE InsertDesc(_, _)
InsertDesc(sorted, item) ==
    IF sorted = <<>> THEN <<item>>
    ELSE IF Head(sorted).score >= item.score THEN <<Head(sorted)>> \o InsertDesc(Tail(sorted), item)
    ELSE <<item>> \o sorted

RECURSIVE SortDesc(_)
SortDesc(items) ==
    IF items = <<>> THEN <<>>
    ELSE InsertDesc(SortDesc(SubSeq(items, 1, Len(items) - 1)), items[Len(items)])

SellCandidatesAll(items) == items

SellCandidates(items) == SelectSeq(items, LAMBDA x : x.has_position /\ x.score < WeakSignalScore)

BuyCandidatesAnyScore(items) == SelectSeq(items, LAMBDA x : ~x.has_position)

BuyCandidates(items) == SelectSeq(items, LAMBDA x : x.score > 0 /\ ~x.has_position)

FirstN(items, n) == SubSeq(items, 1, IF Len(items) < n THEN Len(items) ELSE n)

RECURSIVE ExecuteAll(_, _, _, _, _)
ExecuteAll(w, items, signal, position_value, inp) ==
    IF items = <<>> THEN w
    ELSE ExecuteAll(ExecuteSignal(w, Head(items).symbol, signal, Head(items).details, position_value, inp),
                    Tail(items), signal, position_value, inp)

\* the numbered steps of run_analysis_cycle, in the order the method runs them
NextStepOpensFirst(p) ==
    CASE p = "idle" -> "analyze"
      [] p = "analyze" -> "realloc"
      [] p = "realloc" -> "open"
      [] p = "open" -> "close"
      [] p = "close" -> "idle"

NextStep(p) ==
    CASE p = "idle" -> "analyze"
      [] p = "analyze" -> "close"
      [] p = "close" -> "realloc"
      [] p = "realloc" -> "open"
      [] p = "open" -> "idle"

\* what a step of the orchestrator leaves in the agent and in the broker
Commit(w) ==
    /\ positions' = w.positions
    /\ journal' = w.journal
    /\ broker_positions' = w.broker_positions
    /\ next_order_id' = w.next_order_id
    /\ orders' = w.orders
    /\ trace' = w.trace

Config == <<dry_run, max_new_positions, broker_kind, total_capital, config_symbols>>

Market == <<price, score, has_data, analysis>>

\* lines 687-705: portfolio refresh and universe resolution
CycleRefresh ==
    /\ pc = "idle"
    /\ cycles < MaxCycles
    /\ \E inp \in BrokerFaults :
         /\ positions' = RefreshPositions(World)
         /\ account_info' = RefreshAccountInfo(World, inp)
         /\ available_buying_power' = CalculatedBuyingPower(RefreshAccountInfo(World, inp))
         /\ faulted' = (inp # NoFault)
         /\ faults' = faults + FaultCount(inp)
    /\ prev_faulted' = faulted
    /\ prev_start' = cycle_start
    /\ cycle_start' = Snapshot
    /\ cycle_orders' = 0
    /\ trace' = <<>>
    /\ symbol_scores' = <<>>
    /\ positions_to_open' = <<>>
    /\ position_value_each' = NoValue
    /\ cycles' = cycles + 1
    /\ pc' = NextStep(pc)
    /\ op' = "refresh"
    /\ symbols_to_analyze' = SymbolsToAnalyze(config_symbols, positions')
    /\ UNCHANGED <<Chain, Facade, Gateway, Session, Config, Market, journal, connected, link_up, broker_positions, account_summary,
                   next_order_id, orders, moves, direct>>

\* lines 707-755: per-symbol analysis, risk-triggered closes, ranking
CycleAnalyze ==
    /\ pc = "analyze"
    /\ \E order \in OrdersOf(symbols_to_analyze), inp \in BrokerFaults :
         LET w == AnalyzeLoop(World, order, 1, inp)
         IN /\ Commit(w)
            /\ symbol_scores' = SortDesc(w.symbol_scores)
            /\ cycle_orders' = CountOrders(w.trace)
            /\ faulted' = (faulted \/ inp # NoFault)
            /\ faults' = faults + FaultCount(inp)
    /\ pc' = NextStep(pc)
    /\ op' = "analyze"
    /\ UNCHANGED <<symbols_to_analyze, Chain, Facade, Gateway, Session, Config, Market, connected, link_up, account_summary, account_info,
                   available_buying_power, positions_to_open, position_value_each,
                   cycles, moves, direct, cycle_start, prev_start, prev_faulted>>

\* lines 757-770: close the held symbols with a weak signal
CycleCloseWeak ==
    /\ pc = "close"
    /\ \E inp \in BrokerFaults :
         LET w == ExecuteAll(World, SellCandidates(symbol_scores), "SELL", NoValue, inp)
         IN /\ Commit(w)
            /\ cycle_orders' = CountOrders(w.trace)
            /\ faulted' = (faulted \/ inp # NoFault)
            /\ faults' = faults + FaultCount(inp)
    /\ pc' = NextStep(pc)
    /\ op' = "close_weak"
    /\ UNCHANGED <<symbols_to_analyze, Chain, Facade, Gateway, Session, Config, Market, connected, link_up, account_summary, account_info, symbol_scores,
                   available_buying_power, positions_to_open, position_value_each,
                   cycles, moves, direct, cycle_start, prev_start, prev_faulted>>

\* lines 772-810: re-read the buying power, select the candidates, split the capital
CycleReallocate ==
    /\ pc = "realloc"
    /\ LET abp == IF IsConnected THEN GetBuyingPower(World) ELSE CalculatedBuyingPower(account_info)
           to_open == FirstN(BuyCandidates(symbol_scores), max_new_positions)
       IN /\ available_buying_power' = abp
          /\ positions_to_open' = to_open
          /\ position_value_each' = IF to_open # <<>> /\ abp > 0
                                    THEN [some |-> TRUE, num |-> abp, den |-> Len(to_open)]
                                    ELSE NoValue
    /\ pc' = NextStep(pc)
    /\ op' = "reallocate"
    /\ UNCHANGED <<symbols_to_analyze, Chain, Facade, Gateway, Session, Config, Market, positions, journal, connected, link_up, broker_positions,
                   account_summary, next_order_id, orders, account_info, symbol_scores, trace,
                   cycles, moves, direct, faults, cycle_start, prev_start, cycle_orders, faulted, prev_faulted>>

\* lines 812-828: open the selected candidates
CycleOpen ==
    /\ pc = "open"
    /\ \E inp \in BrokerFaults :
         LET w == ExecuteAll(World, positions_to_open, "BUY", position_value_each, inp)
         IN /\ Commit(w)
            /\ cycle_orders' = CountOrders(w.trace)
            /\ faulted' = (faulted \/ inp # NoFault)
            /\ faults' = faults + FaultCount(inp)
    /\ pc' = NextStep(pc)
    /\ op' = "open"
    /\ UNCHANGED <<symbols_to_analyze, Chain, Facade, Gateway, Session, Config, Market, connected, link_up, account_summary, account_info, symbol_scores,
                   available_buying_power, positions_to_open, position_value_each,
                   cycles, moves, direct, cycle_start, prev_start, prev_faulted>>

\* execute_signal called by a client of the agent, between cycles
ExecuteSignalCall ==
    /\ pc = "idle"
    /\ direct < MaxDirectCalls
    /\ \E s \in Symbols, signal \in Signals, inp \in BrokerFaults :
         /\ Commit(ExecuteSignal(World, s, signal, Details(s), NoValue, inp))
         /\ faults' = faults + FaultCount(inp)
         /\ op' = "execute_signal"
    /\ direct' = direct + 1
    /\ faulted' = TRUE
    /\ UNCHANGED <<symbols_to_analyze, Chain, Facade, Gateway, Session, Config, Market, connected, link_up, account_summary, pc, account_info, symbol_scores,
                   available_buying_power, positions_to_open, position_value_each,
                   cycles, moves, cycle_start, prev_start, cycle_orders, prev_faulted>>

\* check_risk_management called by a client of the agent with a price of its choice
CheckRiskManagementCall ==
    /\ pc = "idle"
    /\ direct < MaxDirectCalls
    /\ \E s \in Symbols, current_price \in RiskPrices :
         trace' = Append(trace, [fn |-> "check_risk_management", symbol |-> s,
                                 action |-> CheckRiskManagement(positions, s, current_price),
                                 quantity |-> 0, price |-> current_price,
                                 entry_price |-> positions[s].entry_price,
                                 journal_len |-> Len(journal), ok |-> HasPosition(positions, s)])
    /\ direct' = direct + 1
    /\ op' = "check_risk_management"
    /\ UNCHANGED <<symbols_to_analyze, Chain, Facade, Gateway, Session, Config, Market, positions, journal, connected, link_up, broker_positions,
                   account_summary, next_order_id, orders, pc, account_info, symbol_scores,
                   available_buying_power, positions_to_open, position_value_each, cycles, moves, faults,
                   cycle_start, prev_start, cycle_orders, faulted, prev_faulted>>

\* ------------------------------------------------------------------------
\* Environment: the market, the connection, fills reported by the IB session
\* ------------------------------------------------------------------------
\* the price that analyze_symbol and the broker read moves
PriceUpdate ==
    /\ pc = "idle"
    /\ moves < MaxMarketMoves
    /\ \E s \in Volatile : \E p \in Prices \ {price[s]} : price' = [price EXCEPT ![s] = p]
    /\ moves' = moves + 1
    /\ op' = "market"
    /\ UNCHANGED <<symbols_to_analyze, Chain, Facade, Gateway, Session, Config, score, has_data, analysis, positions, journal, connected, link_up,
                   broker_positions, account_summary,
                   next_order_id, orders, pc, account_info, symbol_scores, available_buying_power,
                   positions_to_open, position_value_each, trace, cycles, direct, faults, cycle_start,
                   prev_start, cycle_orders, faulted, prev_faulted>>

\* the score of the strategy moves, or the data of a symbol goes missing or comes back
SignalUpdate ==
    /\ pc = "idle"
    /\ moves < MaxMarketMoves
    /\ \E s \in Volatile :
         \/ \E c \in Scores \ {score[s]} : score' = [score EXCEPT ![s] = c] /\ UNCHANGED has_data
         \/ has_data' = [has_data EXCEPT ![s] = ~@] /\ UNCHANGED score
    /\ moves' = moves + 1
    /\ op' = "market"
    /\ UNCHANGED <<symbols_to_analyze, Chain, Facade, Gateway, Session, Config, price, analysis, positions, journal, connected, link_up,
                   broker_positions, account_summary,
                   next_order_id, orders, pc, account_info, symbol_scores, available_buying_power,
                   positions_to_open, position_value_each, trace, cycles, direct, faults, cycle_start,
                   prev_start, cycle_orders, faulted, prev_faulted>>

\* MockBroker.connect: _create_broker hands out a MockBroker that nobody connected
BrokerConnect ==
    /\ broker_kind = "mock"
    /\ ~connected
    /\ pc = "idle"
    /\ connected' = TRUE
    /\ faulted' = TRUE
    /\ op' = "connect"
    /\ UNCHANGED <<symbols_to_analyze, Chain, Facade, Gateway, Session, Config, Market, positions, journal, link_up, broker_positions, account_summary,
                   next_order_id, orders, pc, account_info, symbol_scores, available_buying_power,
                   positions_to_open, position_value_each, trace, cycles, moves, direct, faults, cycle_start,
                   prev_start, cycle_orders, prev_faulted>>

\* MockBroker.disconnect, or the loss of the socket under IBBroker
ConnectionLoss ==
    /\ IsConnected
    /\ IF broker_kind = "mock"
       THEN connected' = FALSE /\ UNCHANGED link_up
       ELSE link_up' = FALSE /\ UNCHANGED connected
    /\ faulted' = TRUE
    /\ op' = "connection_loss"
    /\ UNCHANGED <<symbols_to_analyze, Chain, Facade, Gateway, Session, Config, Market, positions, journal, broker_positions, account_summary,
                   next_order_id, orders, pc, account_info, symbol_scores, available_buying_power,
                   positions_to_open, position_value_each, trace, cycles, moves, direct, faults, cycle_start,
                   prev_start, cycle_orders, prev_faulted>>

\* IBClient.position callback reporting the fill of an order sent earlier; fills
\* are reported between cycles and in the order of placement
IBFill ==
    /\ broker_kind = "ib"
    /\ link_up
    /\ pc = "idle"
    /\ \E i \in 1..Len(orders) :
         /\ ~orders[i].filled
         /\ \A j \in 1..(i - 1) : orders[j].filled
         /\ LET o == orders[i]
                sign == IF o.action = "BUY" THEN 1 ELSE -1
                cur == IF broker_positions[o.symbol].present THEN broker_positions[o.symbol].quantity ELSE 0
            IN broker_positions' = [broker_positions EXCEPT ![o.symbol] =
                   [present |-> TRUE, quantity |-> cur + sign * o.quantity,
                    avg_cost |-> price[o.symbol], market_value |-> 0]]
         /\ orders' = [orders EXCEPT ![i].filled = TRUE]
    /\ op' = "fill"
    /\ UNCHANGED <<symbols_to_analyze, Chain, Facade, Gateway, Session, Config, Market, positions, journal, connected, link_up, account_summary,
                   next_order_id, pc, account_info, symbol_scores, available_buying_power,
                   positions_to_open, position_value_each, trace, cycles, moves, direct, faults, cycle_start,
                   prev_start, cycle_orders, faulted, prev_faulted>>

\* ------------------------------------------------------------------------
\* IBClient: the callback-driven market-data session
\* ------------------------------------------------------------------------
Agent == <<Config, Market, positions, journal, connected, link_up, broker_positions, account_summary,
           next_order_id, orders, pc, account_info, symbol_scores, available_buying_power,
           positions_to_open, position_value_each, trace, op, cycles, moves, direct, faults,
           cycle_start, prev_start, cycle_orders, faulted, prev_faulted, symbols_to_analyze>>

ReqIds == 1..MaxCalls

\* the value the defaultdict creates for a symbol it has not seen
NoMarketData == [known |-> FALSE, timestamp |-> <<>>, close |-> <<>>, high |-> <<>>, low |-> <<>>,
                 volume |-> <<>>, current_high |-> 0, current_low |-> 0]

NoCall == [fn |-> "none", symbol |-> "none", req_id |-> 0, elapsed |-> 0, state |-> "none",
           quiet |-> TRUE, fresh |-> FALSE, cut |-> FALSE, result |-> "pending"]

\* while time.time() - start_time < timeout
TimedOutNever(elapsed, timeout) == FALSE

TimedOut(elapsed, timeout) == elapsed >= timeout

Timeout(fn) == IF fn = "get_market_data" THEN MarketDataTimeout ELSE HistoricalDataTimeout

\* the running high and low are appended as they were before the price came in
UpdateMarketDataStaleHigh(md, price_, size) ==
    LET high == IF md.current_high = 0 \/ price_ > md.current_high THEN price_ ELSE md.current_high
        low == IF md.current_low = 0 \/ price_ < md.current_low THEN price_ ELSE md.current_low
    IN [known |-> TRUE, timestamp |-> Append(md.timestamp, Len(md.timestamp) + 1),
        close |-> Append(md.close, price_), high |-> Append(md.high, md.current_high),
        low |-> Append(md.low, md.current_low), volume |-> Append(md.volume, size),
        current_high |-> high, current_low |-> low]

\* _update_market_data, once it holds _lock; a timestamp is the number of the update
UpdateMarketData(md, price_, size) ==
    LET high == IF md.current_high = 0 \/ price_ > md.current_high THEN price_ ELSE md.current_high
        low == IF md.current_low = 0 \/ price_ < md.current_low THEN price_ ELSE md.current_low
    IN [known |-> TRUE, timestamp |-> Append(md.timestamp, Len(md.timestamp) + 1),
        close |-> Append(md.close, price_), high |-> Append(md.high, high),
        low |-> Append(md.low, low), volume |-> Append(md.volume, size),
        current_high |-> high, current_low |-> low]

Return(result) == call' = [call EXCEPT !.state = "returned", !.result = result]

\* does a callback under request id r speak of the pending call
Correlated(r) ==
    /\ call.state \in {"registered", "polling"}
    /\ IF call.fn = "get_market_data" THEN active_requests[r] = call.symbol ELSE r = call.req_id

Heard(r) == call' = IF Correlated(r) THEN [call EXCEPT !.quiet = FALSE] ELSE call

\* history: a price callback under request id r reaches the pending call; fresh
\* tells that it carried the id of the call itself
HeardPrice(r) ==
    call' = IF Correlated(r) THEN [call EXCEPT !.quiet = FALSE, !.fresh = @ \/ r = call.req_id] ELSE call

CallerFree == call.state \in {"none", "returned"}

\* with self._lock: self.active_requests[req_id] = symbol (lines 236-237)
RegisterNothing(requests, req_id, symbol) == requests

Register(requests, req_id, symbol) == [requests EXCEPT ![req_id] = symbol]

\* get_market_data up to the registration of its request (lines 216-243)
GetMarketData ==
    /\ CallerFree
    /\ calls < MaxCalls
    /\ \E symbol \in SessionSymbols :
         IF symbol = "AAPL" /\ data_received[symbol]
         THEN /\ call' = [NoCall EXCEPT !.fn = "get_market_data", !.symbol = symbol,
                                        !.state = "returned", !.result = "snapshot"]
              /\ market_data' = [market_data EXCEPT ![symbol].known = TRUE]
              /\ UNCHANGED <<data_received, active_requests, next_req_id>>
         ELSE /\ next_req_id' = next_req_id + 1
              /\ active_requests' = Register(active_requests, next_req_id + 1, symbol)
              /\ data_received' = [data_received EXCEPT ![symbol] = FALSE]
              /\ market_data' = IF market_data[symbol].known
                                THEN [market_data EXCEPT ![symbol].current_high = 0,
                                                         ![symbol].current_low = 0]
                                ELSE market_data
              /\ call' = [NoCall EXCEPT !.fn = "get_market_data", !.symbol = symbol,
                                        !.req_id = next_req_id + 1, !.state = "registered"]
    /\ calls' = calls + 1
    /\ UNCHANGED <<Chain, Facade, Gateway, Agent, requested, historical_data, historical_data_end, lock_holder, callbacks>>

\* reqMarketDataType, reqMktData: the request leaves for the gateway (lines 246-250)
SendMarketData ==
    /\ call.fn = "get_market_data"
    /\ call.state = "registered"
    /\ requested' = requested \cup {call.req_id}
    /\ call' = [call EXCEPT !.state = "polling"]
    /\ UNCHANGED <<Chain, Facade, Gateway, Agent, market_data, data_received, active_requests, next_req_id,
                   historical_data, historical_data_end, lock_holder, calls, callbacks>>

\* one turn of the polling loop of get_market_data (lines 254-275)
PollMarketData ==
    /\ call.fn = "get_market_data"
    /\ call.state = "polling"
    /\ lock_holder = "none"
    /\ LET md == market_data[call.symbol] IN
       IF TimedOut(call.elapsed, MarketDataTimeout)
       THEN Return("None") /\ UNCHANGED lock_holder
       ELSE IF data_received[call.symbol] /\ md.known /\ Len(md.close) > 0
            THEN Return("snapshot") /\ UNCHANGED lock_holder
            ELSE IF data_received[call.symbol] /\ md.known /\ md.current_high # 0
                 \* _update_market_data asks for the lock that this thread holds
                 THEN /\ call' = [call EXCEPT !.state = "blocked"]
                      /\ lock_holder' = "caller"
                 ELSE /\ call' = [call EXCEPT !.elapsed = @ + PollInterval]
                      /\ UNCHANGED lock_holder
    /\ UNCHANGED <<Chain, Facade, Gateway, Agent, requested, market_data, data_received, active_requests, next_req_id,
                   historical_data, historical_data_end, calls, callbacks>>

\* request_historical_data up to the polling loop (lines 570-582)
RequestHistoricalData ==
    /\ CallerFree
    /\ calls < MaxCalls
    /\ \E symbol \in SessionSymbols :
         call' = [NoCall EXCEPT !.fn = "request_historical_data", !.symbol = symbol,
                                !.req_id = next_req_id + 1, !.state = "polling"]
    /\ next_req_id' = next_req_id + 1
    /\ historical_data' = [historical_data EXCEPT ![next_req_id + 1] = [present |-> TRUE, bars |-> 0]]
    /\ historical_data_end' = [historical_data_end EXCEPT ![next_req_id + 1] = FALSE]
    /\ calls' = calls + 1
    /\ UNCHANGED <<Chain, Facade, Gateway, Agent, requested, market_data, data_received, active_requests, lock_holder, callbacks>>

\* one turn of the polling loop of request_historical_data (lines 584-590)
PollHistoricalData ==
    /\ call.fn = "request_historical_data"
    /\ call.state = "polling"
    /\ IF TimedOut(call.elapsed, HistoricalDataTimeout)
       THEN Return("None")
       ELSE IF historical_data_end[call.req_id]
            THEN Return("bars")
            ELSE call' = [call EXCEPT !.elapsed = @ + PollInterval]
    /\ UNCHANGED <<Chain, Facade, Gateway, Agent, requested, market_data, data_received, active_requests, next_req_id,
                   historical_data, historical_data_end, lock_holder, calls, callbacks>>

\* tickPrice (lines 326-359); the bid and ask ticks only feed tick_data and the order book
TickPrice ==
    /\ link_up
    /\ callbacks < MaxCallbacks
    /\ \E reqId \in ReqIds, tickType \in TickTypes, price_ \in TickPrices :
         /\ reqId \in requested
         /\ active_requests[reqId] # "none"
         /\ LET symbol == active_requests[reqId]
                md == market_data[symbol]
            IN IF tickType \in {TICK_LAST, TICK_DELAYED_LAST, TICK_CLOSE}
               THEN /\ lock_holder = "none"
                    /\ market_data' = [market_data EXCEPT ![symbol] = UpdateMarketData(md, price_, 0)]
                    /\ data_received' = [data_received EXCEPT ![symbol] = TRUE]
               ELSE IF tickType \in {TICK_HIGH, TICK_DELAYED_HIGH}
               THEN /\ lock_holder = "none"
                    /\ IF md.current_high = 0 \/ price_ > md.current_high
                       THEN /\ market_data' = [market_data EXCEPT ![symbol].known = TRUE,
                                                                  ![symbol].current_high = price_]
                            /\ data_received' = [data_received EXCEPT ![symbol] = TRUE]
                       ELSE /\ market_data' = [market_data EXCEPT ![symbol].known = TRUE]
                            /\ UNCHANGED data_received
               ELSE IF tickType = TICK_LOW
               THEN /\ lock_holder = "none"
                    /\ IF md.current_low = 0 \/ price_ < md.current_low
                       THEN /\ market_data' = [market_data EXCEPT ![symbol].known = TRUE,
                                                                  ![symbol].current_low = price_]
                            /\ data_received' = [data_received EXCEPT ![symbol] = TRUE]
                       ELSE /\ market_data' = [market_data EXCEPT ![symbol].known = TRUE]
                            /\ UNCHANGED data_received
               ELSE UNCHANGED <<market_data, data_received>>
         /\ HeardPrice(reqId)
    /\ callbacks' = callbacks + 1
    /\ UNCHANGED <<Chain, Facade, Gateway, Agent, requested, active_requests, next_req_id, historical_data, historical_data_end,
                   lock_holder, calls>>

\* tickSize with a volume tick (lines 361-373)
TickSize ==
    /\ link_up
    /\ callbacks < MaxCallbacks
    /\ lock_holder = "none"
    /\ \E reqId \in ReqIds, size \in {7} :
         /\ reqId \in requested
         /\ active_requests[reqId] # "none"
         /\ LET symbol == active_requests[reqId]
                md == market_data[symbol]
            IN IF md.volume # <<>>
               THEN /\ market_data' = [market_data EXCEPT ![symbol].known = TRUE,
                                          ![symbol].volume = [md.volume EXCEPT ![Len(md.volume)] = size]]
                    /\ data_received' = [data_received EXCEPT ![symbol] = TRUE]
               ELSE /\ market_data' = [market_data EXCEPT ![symbol].known = TRUE]
                    /\ UNCHANGED data_received
         /\ Heard(reqId)
    /\ callbacks' = callbacks + 1
    /\ UNCHANGED <<Chain, Facade, Gateway, Agent, requested, active_requests, next_req_id, historical_data, historical_data_end,
                   lock_holder, calls>>

\* tickString with an RT_VOLUME tick "price;size;..." (lines 389-405)
TickString ==
    /\ link_up
    /\ callbacks < MaxCallbacks
    /\ lock_holder = "none"
    /\ \E reqId \in ReqIds, price_ \in TickPrices, size \in {7} :
         /\ reqId \in requested
         /\ active_requests[reqId] # "none"
         /\ LET symbol == active_requests[reqId]
            IN /\ market_data' = [market_data EXCEPT
                                     ![symbol] = UpdateMarketData(market_data[symbol], price_, size)]
               /\ data_received' = [data_received EXCEPT ![symbol] = TRUE]
         /\ HeardPrice(reqId)
    /\ callbacks' = callbacks + 1
    /\ UNCHANGED <<Chain, Facade, Gateway, Agent, requested, active_requests, next_req_id, historical_data, historical_data_end,
                   lock_holder, calls>>

\* error (lines 189-207): every code but the connection messages marks the symbol
ErrorDelivery(reqId, errorCode) ==
    /\ reqId \in requested
    /\ active_requests[reqId] # "none"
    /\ data_received' = IF errorCode \in {2104, 2106, 2158} THEN data_received
                        ELSE [data_received EXCEPT ![active_requests[reqId]] = TRUE]
    /\ Heard(reqId)
    /\ callbacks' = callbacks + 1
    /\ UNCHANGED <<Chain, Facade, Gateway, Agent, requested, market_data, active_requests, next_req_id, historical_data,
                   historical_data_end, lock_holder, calls>>

ErrorCallback ==
    /\ link_up
    /\ callbacks < MaxCallbacks
    /\ \E reqId \in ReqIds, errorCode \in ErrorCodes : ErrorDelivery(reqId, errorCode)

\* historicalData (lines 509-513)
HistoricalData ==
    /\ link_up
    /\ callbacks < MaxCallbacks
    /\ \E reqId \in ReqIds :
         /\ reqId <= next_req_id
         /\ historical_data' = [historical_data EXCEPT ![reqId] = [present |-> TRUE, bars |-> @.bars + 1]]
         /\ Heard(reqId)
    /\ callbacks' = callbacks + 1
    /\ UNCHANGED <<Chain, Facade, Gateway, Agent, requested, market_data, data_received, active_requests, next_req_id,
                   historical_data_end, lock_holder, calls>>

\* historicalDataEnd (lines 515-518)
HistoricalDataEnd ==
    /\ link_up
    /\ callbacks < MaxCallbacks
    /\ \E reqId \in ReqIds :
         /\ reqId <= next_req_id
         /\ historical_data_end' = [historical_data_end EXCEPT ![reqId] = TRUE]
         /\ Heard(reqId)
    /\ callbacks' = callbacks + 1
    /\ UNCHANGED <<Chain, Facade, Gateway, Agent, requested, market_data, data_received, active_requests, next_req_id,
                   historical_data, lock_holder, calls>>

\* the socket of the session closes: EClient.isConnected(), which IBBroker.is_connected
\* reads (line 717), is false from here on, and no callback is delivered any more
ConnectionClosed ==
    /\ link_up
    /\ link_up' = FALSE
    /\ call' = [call EXCEPT !.cut = (call.state = "polling")]
    /\ UNCHANGED <<Chain, Facade, Gateway, market_data, data_received, active_requests, next_req_id, requested,
                   historical_data, historical_data_end, lock_holder, calls, callbacks,
                   Config, Market, positions, journal, connected, broker_positions,
                   account_summary, next_order_id, orders, pc, account_info, symbol_scores,
                   available_buying_power, positions_to_open, position_value_each, trace, op, cycles,
                   moves, direct, faults, cycle_start, prev_start, cycle_orders, faulted, prev_faulted,
                   symbols_to_analyze>>

InitSession ==
    /\ market_data = [s \in SessionSymbols |-> NoMarketData]
    /\ data_received = [s \in SessionSymbols |-> FALSE]
    /\ active_requests = [r \in ReqIds |-> "none"]
    /\ next_req_id = 0
    /\ requested = {}
    /\ historical_data = [r \in ReqIds |-> [present |-> FALSE, bars |-> 0]]
    /\ historical_data_end = [r \in ReqIds |-> FALSE]
    /\ lock_holder = "none"
    /\ call = NoCall
    /\ calls = 0
    /\ callbacks = 0

\* ------------------------------------------------------------------------
\* IBBroker: the handshake of connect() and the order-id counter
\* ------------------------------------------------------------------------
NoConnect == [state |-> "none", elapsed |-> 0, seen |-> FALSE, result |-> "pending"]

\* a price of 0 stands for None, an order id of 0 for a call that returned None
NoArgs == [quantity |-> 0, order_type |-> "none", limit_price |-> 0, stop_price |-> 0]

NoThread == [pc |-> "idle", fn |-> "none", args |-> NoArgs, order_id |-> 0, loaded |-> 0, ret |-> 0]

\* IBBroker.is_connected() of the broker whose connect() runs here
GatewayIsConnected == ib_connected /\ socket_up

\* lines 691-703: the result of connect() once its wait is over; raises stands
\* for an exception out of update_positions / update_account_info
ConnectOutcomeAlways(seen, raises) == "True"

ConnectOutcome(seen, raises) == IF seen /\ ~raises THEN "True" ELSE "False"

\* IBBroker.connect up to its wait (lines 677-687); EClient.connect may raise
Connect ==
    /\ connect_call.state = "none"
    /\ \E established \in BOOLEAN :
         IF established
         THEN /\ socket_up' = TRUE
              /\ connect_call' = [NoConnect EXCEPT !.state = "waiting"]
         ELSE /\ connect_call' = [NoConnect EXCEPT !.state = "returned", !.result = "False"]
              /\ UNCHANGED socket_up
    /\ delivered' = 0
    /\ UNCHANGED <<Chain, Facade, Agent, Session, client_connected, ib_connected, client_next_order_id,
                   placer, placed, reused, handshakes, placements>>

\* one turn of the wait of connect(), and what follows it (lines 688-703)
PollConnect ==
    /\ connect_call.state = "waiting"
    /\ IF ~client_connected /\ ~TimedOut(connect_call.elapsed, ConnectTimeout)
       THEN /\ connect_call' = [connect_call EXCEPT !.elapsed = @ + PollInterval]
            /\ UNCHANGED ib_connected
       ELSE \E raises \in {FALSE, client_connected} :
              /\ ib_connected' = client_connected
              /\ connect_call' = [connect_call EXCEPT !.state = "returned", !.seen = client_connected,
                                     !.result = ConnectOutcome(client_connected, raises)]
    /\ delivered' = 0
    /\ UNCHANGED <<Chain, Facade, Agent, Session, socket_up, client_connected, client_next_order_id,
                   placer, placed, reused, handshakes, placements>>

\* nextValidId (lines 182-187); the gateway never hands out an id that is in use
NextValidId ==
    /\ socket_up
    /\ handshakes < MaxHandshakes
    /\ \E orderId \in OrderIdSeeds :
         /\ \A used \in placed : used < orderId
         /\ client_next_order_id' = orderId
         /\ delivered' = orderId
    /\ client_connected' = TRUE
    /\ handshakes' = handshakes + 1
    /\ UNCHANGED <<Chain, Facade, Agent, Session, socket_up, ib_connected, connect_call, placer, placed, reused,
                   placements>>

\* place_order lines 845-877: the checks that make it return None
PlaceOrderRejectsNoPriceCheck(conn, args) ==
    \/ ~conn
    \/ args.quantity <= 0
    \/ args.order_type \notin {"MKT", "LMT", "STP", "STP LMT"}

PlaceOrderRejects(conn, args) ==
    \/ ~conn
    \/ args.quantity <= 0
    \/ args.order_type = "LMT" /\ args.limit_price = 0
    \/ args.order_type = "STP" /\ args.stop_price = 0
    \/ args.order_type = "STP LMT" /\ (args.limit_price = 0 \/ args.stop_price = 0)
    \/ args.order_type \notin {"MKT", "LMT", "STP", "STP LMT"}

\* a thread enters place_order with its arguments; the checks that follow read
\* nothing that another thread writes, so one thread at a time is taken through them
PlaceOrderCall(t) ==
    /\ placer[t].pc = "idle"
    /\ connect_call.state # "waiting"
    /\ \A u \in Threads : placer[u].pc # "check"
    /\ placements < MaxPlacements
    /\ \E quantity \in Quantities, order_type \in OrderTypes, limit_price \in LimitPrices,
          stop_price \in StopPrices :
         placer' = [placer EXCEPT ![t] =
                       [NoThread EXCEPT !.pc = "check", !.fn = "place_order",
                                        !.args = [quantity |-> quantity, order_type |-> order_type,
                                                  limit_price |-> limit_price, stop_price |-> stop_price]]]
    /\ placements' = placements + 1
    /\ delivered' = 0
    /\ UNCHANGED <<Chain, Facade, Agent, Session, socket_up, client_connected, ib_connected, client_next_order_id,
                   connect_call, placed, reused, handshakes>>

\* lines 845-877
PlaceOrderCheck(t) ==
    /\ placer[t].pc = "check"
    /\ placer' = [placer EXCEPT ![t] =
                     IF PlaceOrderRejects(ib_connected, placer[t].args)
                     THEN [NoThread EXCEPT !.fn = "place_order"]
                     ELSE [NoThread EXCEPT !.fn = "place_order", !.pc = "read"]]
    /\ delivered' = 0
    /\ UNCHANGED <<Chain, Facade, Agent, Session, socket_up, client_connected, ib_connected, client_next_order_id,
                   connect_call, placed, reused, handshakes, placements>>

\* line 880: order_id = self.client.next_order_id
PlaceOrderRead(t) ==
    /\ placer[t].pc = "read"
    /\ placer' = [placer EXCEPT ![t].pc = "load", ![t].order_id = client_next_order_id]
    /\ delivered' = 0
    /\ UNCHANGED <<Chain, Facade, Agent, Session, socket_up, client_connected, ib_connected, client_next_order_id,
                   connect_call, placed, reused, handshakes, placements>>

\* line 881, self.client.next_order_id += 1: the load of the attribute
PlaceOrderLoad(t) ==
    /\ placer[t].pc = "load"
    /\ placer' = [placer EXCEPT ![t].pc = "store", ![t].loaded = client_next_order_id]
    /\ delivered' = 0
    /\ UNCHANGED <<Chain, Facade, Agent, Session, socket_up, client_connected, ib_connected, client_next_order_id,
                   connect_call, placed, reused, handshakes, placements>>

\* line 881: the store of the sum
PlaceOrderStore(t) ==
    /\ placer[t].pc = "store"
    /\ client_next_order_id' = placer[t].loaded + 1
    /\ placer' = [placer EXCEPT ![t].pc = "send", ![t].loaded = 0]
    /\ delivered' = 0
    /\ UNCHANGED <<Chain, Facade, Agent, Session, socket_up, client_connected, ib_connected,
                   connect_call, placed, reused, handshakes, placements>>

\* lines 884-894: placeOrder, the wait, the return; an exception returns None
PlaceOrderSend(t) ==
    /\ placer[t].pc = "send"
    /\ \E raises \in BOOLEAN :
         IF raises
         THEN /\ placer' = [placer EXCEPT ![t] = [NoThread EXCEPT !.fn = "place_order"]]
              /\ UNCHANGED <<placed, reused>>
         ELSE /\ placed' = placed \cup {placer[t].order_id}
              /\ reused' = (reused \/ placer[t].order_id \in placed)
              /\ placer' = [placer EXCEPT ![t] = [NoThread EXCEPT !.fn = "place_order",
                                                                  !.ret = placer[t].order_id]]
    /\ delivered' = 0
    /\ UNCHANGED <<Chain, Facade, Agent, Session, socket_up, client_connected, ib_connected, client_next_order_id,
                   connect_call, handshakes, placements>>

\* place_bracket_order up to create_bracket_order (lines 899-905, 803-825): the
\* three reads of next_order_id are taken as one
BracketCall(t) ==
    /\ placer[t].pc = "idle"
    /\ connect_call.state # "waiting"
    /\ placements < MaxPlacements
    /\ placer' = [placer EXCEPT ![t] =
                     IF ~ib_connected
                     THEN [NoThread EXCEPT !.fn = "place_bracket_order"]
                     ELSE [NoThread EXCEPT !.pc = "bracket_send", !.fn = "place_bracket_order",
                                           !.order_id = client_next_order_id]]
    /\ placements' = placements + 1
    /\ delivered' = 0
    /\ UNCHANGED <<Chain, Facade, Agent, Session, socket_up, client_connected, ib_connected, client_next_order_id,
                   connect_call, placed, reused, handshakes>>

\* lines 907-911: the three placeOrder calls; an exception after n of them returns None
BracketSend(t) ==
    /\ placer[t].pc = "bracket_send"
    /\ \E n \in 0..3 :
         LET ids == {placer[t].order_id + i : i \in 0..(n - 1)}
         IN /\ placed' = placed \cup ids
            /\ reused' = (reused \/ ids \cap placed # {})
            /\ placer' = [placer EXCEPT ![t] =
                             IF n = 3 THEN [@ EXCEPT !.pc = "bracket_advance"]
                             ELSE [NoThread EXCEPT !.fn = "place_bracket_order"]]
    /\ delivered' = 0
    /\ UNCHANGED <<Chain, Facade, Agent, Session, socket_up, client_connected, ib_connected, client_next_order_id,
                   connect_call, handshakes, placements>>

\* lines 913-915: next_order_id += 3 and the return of the ids
BracketAdvance(t) ==
    /\ placer[t].pc = "bracket_advance"
    /\ client_next_order_id' = client_next_order_id + 3
    /\ placer' = [placer EXCEPT ![t] = [NoThread EXCEPT !.fn = "place_bracket_order",
                                                        !.ret = placer[t].order_id]]
    /\ delivered' = 0
    /\ UNCHANGED <<Chain, Facade, Agent, Session, socket_up, client_connected, ib_connected,
                   connect_call, placed, reused, handshakes, placements>>

\* IBClient.__init__ (lines 105, 114) and IBBroker.__init__ (line 653)
InitGateway ==
    /\ socket_up = FALSE
    /\ client_connected = FALSE
    /\ ib_connected = FALSE
    /\ client_next_order_id = 1
    /\ connect_call = NoConnect
    /\ delivered = 0
    /\ placer = [t \in Threads |-> NoThread]
    /\ placed = {}
    /\ reused = FALSE
    /\ handshakes = 0
    /\ placements = 0

\* ------------------------------------------------------------------------
\* IBBroker: the methods that read the positions cache of the session
\* ------------------------------------------------------------------------
NoCachedPosition == [present |-> FALSE, position |-> 0]

NoFacadeCall == [fn |-> "none", pc |-> "idle", symbol |-> "none", qqq_qty |-> 0, tqqq_qty |-> 0,
                 value |-> 0, result |-> "pending", action |-> "none", quantity |-> 0,
                 asked |-> <<>>, sent |-> <<>>, target |-> "none", prices |-> <<>>, closed |-> "none"]

\* what get_position returns once it holds the lock (lines 741-743)
CachedQuantity(cache, symbol) == IF cache[symbol].present THEN cache[symbol].position ELSE 0

\* with self.client.lock: threading.Lock is not reentrant, a thread enters only on a free lock
Acquirable(holder, thread) == holder = "none"

\* the position callback (lines 420-429), in the thread of the session, which
\* runs while the socket is up
PositionCallback ==
    /\ socket_up
    /\ position_callbacks < MaxPositionCallbacks
    /\ Acquirable(lock, "callback")
    /\ \E symbol \in HoldingSymbols, position \in PositionQuantities :
         client_positions' = [client_positions EXCEPT ![symbol] = [present |-> TRUE, position |-> position]]
    /\ position_callbacks' = position_callbacks + 1
    /\ UNCHANGED <<Chain, Agent, Session, Gateway, lock, facade, facade_calls>>

\* IBBroker.get_position (lines 738-743) called by the caller thread
GetPosition ==
    /\ facade.pc \in {"idle", "returned"}
    /\ facade_calls < MaxFacadeCalls
    /\ Acquirable(lock, "caller")
    /\ \E symbol \in HoldingSymbols :
         facade' = [NoFacadeCall EXCEPT !.fn = "get_position", !.symbol = symbol, !.pc = "returned",
                                        !.value = CachedQuantity(client_positions, symbol)]
    /\ facade_calls' = facade_calls + 1
    /\ UNCHANGED <<Chain, Agent, Session, Gateway, client_positions, lock, position_callbacks>>

\* get_current_holding, line 1047: with self.client.lock
GetCurrentHolding ==
    /\ facade.pc \in {"idle", "returned"}
    /\ facade_calls < MaxFacadeCalls
    /\ Acquirable(lock, "caller")
    /\ lock' = "caller"
    /\ facade' = [NoFacadeCall EXCEPT !.fn = "get_current_holding", !.pc = "qqq"]
    /\ facade_calls' = facade_calls + 1
    /\ UNCHANGED <<Chain, Agent, Session, Gateway, client_positions, position_callbacks>>

\* lines 1048-1056: the two get_position calls, each entering with
\* self.client.lock, then the choice and the release of the lock on the way out
HoldingGetPosition ==
    /\ facade.fn = "get_current_holding"
    /\ facade.pc \in {"qqq", "tqqq"}
    /\ IF ~Acquirable(lock, "caller")
       THEN facade' = [facade EXCEPT !.pc = "blocked"] /\ UNCHANGED lock
       ELSE IF facade.pc = "qqq"
            THEN /\ facade' = [facade EXCEPT !.pc = "tqqq",
                                             !.qqq_qty = CachedQuantity(client_positions, "QQQ")]
                 /\ UNCHANGED lock
            ELSE LET tqqq_qty == CachedQuantity(client_positions, "TQQQ")
                 IN /\ facade' = [facade EXCEPT !.pc = "returned", !.tqqq_qty = tqqq_qty,
                                                !.result = IF tqqq_qty > 0 THEN "TQQQ"
                                                           ELSE IF facade.qqq_qty > 0 THEN "QQQ"
                                                           ELSE "Cash"]
                    /\ lock' = "none"
    /\ UNCHANGED <<Chain, Agent, Session, Gateway, client_positions, facade_calls, position_callbacks>>

\* the caller thread is in no method of IBBroker (connect() included)
FacadeFree == facade.pc \in {"idle", "returned"} /\ connect_call.state # "waiting"

\* abs(int(current_qty)) (line 984): int() drops the fraction of a share
WholeShares(current_qty) == Abs(current_qty) \div ShareUnit

\* what place_order works on: the order-id counter of the session, the ids sent
\* to the gateway, the place_order calls made and the orders sent by the method
\* that the caller is in, and the value returned
Desk == [next_order_id |-> client_next_order_id, placed |-> placed, reused |-> reused,
         asked |-> <<>>, sent |-> <<>>, ret |-> 0, ok |-> FALSE]

Asked(symbol, action, quantity) == [symbol |-> symbol, action |-> action, quantity |-> quantity]

\* IBBroker.place_order (lines 829-895) for a market order, run by the only
\* thread inside the broker; ret is the order id, 0 for None
FacadePlaceOrder(desk, symbol, action, quantity, raises) ==
    IF ~ib_connected \/ quantity <= 0
    THEN [desk EXCEPT !.asked = Append(@, Asked(symbol, action, quantity)), !.ret = 0]
    ELSE LET order_id == desk.next_order_id IN
         IF raises THEN [desk EXCEPT !.asked = Append(@, Asked(symbol, action, quantity)),
                                     !.next_order_id = order_id + 1, !.ret = 0]
         ELSE [desk EXCEPT !.asked = Append(@, Asked(symbol, action, quantity)),
                           !.next_order_id = order_id + 1,
                           !.placed = @ \cup {order_id},
                           !.reused = @ \/ order_id \in desk.placed,
                           !.sent = Append(@, [symbol |-> symbol, action |-> action,
                                               quantity |-> quantity, order_id |-> order_id]),
                           !.ret = order_id]

\* IBBroker.close_position (lines 976-990); ok is the value returned
IBClosePosition(desk, symbol, raises) ==
    LET current_qty == CachedQuantity(client_positions, symbol) IN
    IF current_qty = 0 THEN [desk EXCEPT !.ok = TRUE]
    ELSE LET after == FacadePlaceOrder(desk, symbol, IF current_qty > 0 THEN "SELL" ELSE "BUY",
                                       WholeShares(current_qty), raises)
         IN [after EXCEPT !.ok = (after.ret # 0)]

\* IBBroker.get_account_value (lines 745-750) and calculate_shares (lines 969-974)
IBCalculateShares(current_price) ==
    LET account_value == IF account_summary.present THEN account_summary.net_liquidation
                         ELSE total_capital
    IN Max(1, (account_value * IBPositionSizePct) \div (100 * current_price))

\* the price looked up under 'qqq_price' whatever the symbol
PriceOfQQQ(prices, symbol) == prices.qqq_price

\* prices.get('tqqq_price' if symbol == 'TQQQ' else 'qqq_price', 0) (line 1018);
\* a key that the dict lacks is a price of 0
PriceFor(prices, symbol) == IF symbol = "TQQQ" THEN prices.tqqq_price ELSE prices.qqq_price

\* execute_position_change, step 1 (lines 1007-1013): close the old position;
\* a failed close returns False, else the caller sleeps for the fill
ExecutePositionChange ==
    /\ FacadeFree
    /\ facade_calls < MaxChanges
    /\ \E old_position \in OldPositions, new_position \in NewPositions, prices \in PriceDicts,
          raises \in BOOLEAN :
         LET closes == old_position \notin {"None", "Cash"}
             desk == IF closes THEN IBClosePosition(Desk, old_position, raises) ELSE Desk
             called == [NoFacadeCall EXCEPT !.fn = "execute_position_change", !.symbol = old_position,
                                            !.target = new_position, !.prices = prices,
                                            !.value = IF closes
                                                      THEN CachedQuantity(client_positions, old_position)
                                                      ELSE 0,
                                            !.asked = desk.asked, !.sent = desk.sent]
         IN /\ raises => desk.next_order_id # client_next_order_id
            /\ client_next_order_id' = desk.next_order_id
            /\ placed' = desk.placed
            /\ reused' = desk.reused
            /\ facade' = IF closes /\ ~desk.ok
                         THEN [called EXCEPT !.pc = "returned", !.closed = "failed", !.result = "False"]
                         ELSE [called EXCEPT !.pc = "open", !.closed = IF closes THEN "ok" ELSE "none"]
    /\ facade_calls' = facade_calls + 1
    /\ UNCHANGED <<Chain, Agent, Session, socket_up, client_connected, ib_connected, connect_call, delivered,
                   placer, handshakes, placements, client_positions, lock, position_callbacks>>

\* execute_position_change, step 2 (lines 1015-1039): open the new position
\* unless it is Cash, ask for the positions, return True
ExecuteOpen ==
    /\ facade.fn = "execute_position_change"
    /\ facade.pc = "open"
    /\ \E raises \in BOOLEAN :
         LET symbol == facade.target
             price_ == PriceFor(facade.prices, symbol)
             start == [Desk EXCEPT !.asked = facade.asked, !.sent = facade.sent]
             buys == symbol # "Cash" /\ price_ > 0
             desk == IF buys
                     THEN FacadePlaceOrder(start, symbol, "BUY", IBCalculateShares(price_), raises)
                     ELSE start
         IN /\ raises => desk.next_order_id # client_next_order_id
            /\ client_next_order_id' = desk.next_order_id
            /\ placed' = desk.placed
            /\ reused' = desk.reused
            /\ facade' = [facade EXCEPT !.pc = "returned", !.asked = desk.asked, !.sent = desk.sent,
                                        !.result = IF symbol = "Cash" THEN "True"
                                                   ELSE IF price_ <= 0 \/ desk.ret = 0 THEN "False"
                                                   ELSE "True"]
    /\ UNCHANGED <<Chain, Agent, Session, socket_up, client_connected, ib_connected, connect_call, delivered,
                   placer, handshakes, placements, client_positions, lock, facade_calls,
                   position_callbacks>>

\* MockBroker.close_position (base_broker.py lines 488-494) over the same
\* positions: MockBroker keeps a symbol only while its quantity is not 0 (lines
\* 520-521), and its place_order always returns an order id (line 529)
MockClosePosition(cache, symbol) ==
    IF CachedQuantity(cache, symbol) # 0 THEN TRUE ELSE FALSE

\* IBBroker.close_position called by the caller thread
ClosePositionCall ==
    /\ FacadeFree
    /\ facade_calls < MaxFacadeCalls
    /\ \E symbol \in HoldingSymbols, raises \in BOOLEAN :
         LET desk == IBClosePosition(Desk, symbol, raises)
         IN /\ raises => desk.next_order_id # client_next_order_id
            /\ client_next_order_id' = desk.next_order_id
            /\ placed' = desk.placed
            /\ reused' = desk.reused
            /\ facade' = [NoFacadeCall EXCEPT !.fn = "close_position", !.pc = "returned",
                                              !.symbol = symbol, !.asked = desk.asked,
                                              !.sent = desk.sent,
                                              !.value = CachedQuantity(client_positions, symbol),
                                              !.result = IF desk.ok THEN "True" ELSE "False"]
    /\ facade_calls' = facade_calls + 1
    /\ UNCHANGED <<Chain, Agent, Session, socket_up, client_connected, ib_connected, connect_call, delivered,
                   placer, handshakes, placements, client_positions, lock, position_callbacks>>

\* IBBroker.get_buying_power (lines 1076-1081)
IBGetBuyingPower == IF account_summary.present THEN account_summary.buying_power ELSE 0

\* validate_order with the market-data check left out
ValidateOrderIgnoringData(is_connected, action, quantity, close, buying_power, current_position) ==
    IF ~is_connected THEN "Not connected to IB"
    ELSE IF quantity <= 0 THEN "Invalid quantity"
    ELSE IF close # <<>> /\ action = "BUY" /\ quantity * close[Len(close)] > buying_power
    THEN "Insufficient buying power"
    ELSE IF action = "SELL" /\ current_position < quantity * ShareUnit THEN "Insufficient position"
    ELSE ""

\* validate_order (lines 1118-1150): the message of the returned pair, "" with
\* True; close is market_data['close'] of the answer, <<>> for no answer
IBValidateOrder(is_connected, action, quantity, close, buying_power, current_position) ==
    IF ~is_connected THEN "Not connected to IB"
    ELSE IF quantity <= 0 THEN "Invalid quantity"
    ELSE IF close = <<>> THEN "Cannot get market data"
    ELSE IF action = "BUY" /\ quantity * close[Len(close)] > buying_power THEN "Insufficient buying power"
    ELSE IF action = "SELL" /\ current_position < quantity * ShareUnit THEN "Insufficient position"
    ELSE ""

\* IBClient.get_market_data (lines 209-276) run to its return inside one call:
\* the request is registered and sent, then either a last-price tick of the
\* gateway answers it (answer is the price) or the wait times out (answer 0)
SnapshotRequest(symbol, answer) ==
    LET md == market_data[symbol]
        reset == IF md.known THEN [md EXCEPT !.current_high = 0, !.current_low = 0] ELSE md
    IN /\ next_req_id' = next_req_id + 1
       /\ active_requests' = Register(active_requests, next_req_id + 1, symbol)
       /\ requested' = requested \cup {next_req_id + 1}
       /\ data_received' = [data_received EXCEPT ![symbol] = (answer # 0)]
       /\ market_data' = [market_data EXCEPT ![symbol] = IF answer # 0 THEN UpdateMarketData(reset, answer, 0)
                                                          ELSE reset]

\* IBBroker.validate_order called by the caller thread
ValidateOrderCall ==
    /\ FacadeFree
    /\ facade_calls < MaxFacadeCalls
    /\ \E symbol \in ValidateSymbols, action \in {"BUY", "SELL"}, quantity \in ValidateQuantities,
          answer \in SnapshotAnswers :
         LET asks == ib_connected /\ quantity > 0
             close == IF asks /\ answer # 0 THEN market_data'[symbol].close ELSE <<>>
             message == IBValidateOrder(ib_connected, action, quantity, close, IBGetBuyingPower,
                                        CachedQuantity(client_positions, symbol))
         IN /\ IF asks
               THEN next_req_id < MaxCalls /\ SnapshotRequest(symbol, answer)
               ELSE answer = 0 /\ UNCHANGED <<market_data, data_received, active_requests, next_req_id,
                                               requested>>
            /\ facade' = [NoFacadeCall EXCEPT !.fn = "validate_order", !.pc = "returned",
                                              !.symbol = symbol, !.action = action,
                                              !.quantity = quantity, !.result = message]
    /\ facade_calls' = facade_calls + 1
    /\ UNCHANGED <<Chain, Agent, Gateway, historical_data, historical_data_end, lock_holder, call, calls,
                   callbacks, client_positions, lock, position_callbacks>>

\* IBClient.__init__ (lines 98-99): an empty cache and a free lock
InitFacade ==
    /\ client_positions = [s \in HoldingSymbols |-> NoCachedPosition]
    /\ lock = "none"
    /\ facade = NoFacadeCall
    /\ facade_calls = 0
    /\ position_callbacks = 0

\* ------------------------------------------------------------------------
\* The data-provider chain
\* ------------------------------------------------------------------------
\* a provider as the chain sees it: is_available() and what its
\* get_historical_data does (a table, an empty table, None, or an exception)
ProviderChains ==
    UNION {[1..n -> [available : BOOLEAN, answer : ProviderAnswers]] : n \in 1..MaxProviders}

NoFetch == [fn |-> "none", result |-> "pending", provider |-> 0]

\* MultiProviderDataSource.get_historical_data (multi_provider.py lines 25-40),
\* the loop from provider i on; an exception of a provider leaves the loop
RECURSIVE ChainFrom(_, _)
ChainFrom(ps, i) ==
    IF i > Len(ps) THEN [result |-> "None", provider |-> 0]
    ELSE IF ~ps[i].available THEN ChainFrom(ps, i + 1)
    ELSE IF ps[i].answer = "raises" THEN [result |-> "raises", provider |-> i]
    ELSE IF ps[i].answer = "data" THEN [result |-> "data", provider |-> i]
    ELSE ChainFrom(ps, i + 1)

\* a call of MultiProviderDataSource.get_historical_data with that many
\* positional arguments: def get_historical_data(self, symbol, days, **kwargs)
\* (line 23) binds two, a third one is a TypeError
GetHistoricalData(ps, positional) ==
    IF positional > ChainPositionals THEN [result |-> "raises", provider |-> 0]
    ELSE ChainFrom(ps, 1)

\* QuantTradingAgent.fetch_market_data (quant_trading_agent.py lines 321-329):
\* self.data_source.get_historical_data(symbol, days, interval), None on an exception
FetchMarketData ==
    /\ LET data == GetHistoricalData(providers, FetchPositionals)
       IN fetched' = [fn |-> "fetch_market_data",
                      result |-> IF data.result = "raises" THEN "None" ELSE data.result,
                      provider |-> data.provider]
    /\ UNCHANGED <<Agent, Session, Gateway, Facade, providers>>

\* the chain called directly, with the interval as a keyword argument
ChainGetHistoricalData ==
    /\ LET data == GetHistoricalData(providers, ChainPositionals)
       IN fetched' = [fn |-> "get_historical_data", result |-> data.result, provider |-> data.provider]
    /\ UNCHANGED <<Agent, Session, Gateway, Facade, providers>>

\* a provider becomes available or unavailable (API key, connection of the broker)
ProviderAvailability ==
    /\ \E i \in 1..Len(providers) :
         providers' = [providers EXCEPT ![i].available = ~@]
    /\ UNCHANGED <<Agent, Session, Gateway, Facade, fetched>>

\* the other components leave the chain alone (_create_data_source, lines 239-265:
\* the configured provider, then yfinance as the fallback)
InitChain ==
    /\ providers = <<[available |-> TRUE, answer |-> "data"], [available |-> TRUE, answer |-> "data"]>>
    /\ fetched = NoFetch

\* ------------------------------------------------------------------------
\* The orchestrator and its broker
\* ------------------------------------------------------------------------
InitOrchestrator ==
    /\ dry_run \in BOOLEAN
    /\ max_new_positions \in MaxNewPositionsConfigs
    /\ broker_kind \in IF dry_run THEN {"mock"} ELSE {"mock", "ib"}
    /\ total_capital \in IF broker_kind = "ib" THEN {IBTotalCapital}
                        ELSE IF dry_run THEN {MockTotalCapital} ELSE Capitals
    /\ symbols_to_analyze = {}
    /\ positions = [s \in Symbols |-> NoPosition]
    /\ journal = <<>>
    /\ connected = (broker_kind = "ib")
    /\ link_up = TRUE
    /\ broker_positions = [s \in Symbols |-> NoBrokerPosition]
    /\ account_summary \in
         IF broker_kind = "mock"
         THEN {[present |-> FALSE, buying_power |-> 0, net_liquidation |-> 0, cash |-> 0]}
         ELSE {[present |-> FALSE, buying_power |-> 0, net_liquidation |-> 0, cash |-> 0]} \cup
              {[present |-> TRUE, buying_power |-> b, net_liquidation |-> total_capital,
                cash |-> total_capital] : b \in IBBuyingPowers}
    /\ next_order_id = 1
    /\ orders = <<>>
    /\ price = [s \in Symbols |-> InitialPrice]
    /\ score = InitialScore
    /\ has_data = [s \in Symbols |-> TRUE]
    /\ pc = "idle"
    /\ account_info = NoAccountInfo
    /\ symbol_scores = <<>>
    /\ available_buying_power = 0
    /\ positions_to_open = <<>>
    /\ position_value_each = NoValue
    /\ trace = <<>>
    /\ op = "init"
    /\ cycles = 0
    /\ moves = 0
    /\ direct = 0
    /\ faults = 0
    /\ cycle_start = Snapshot
    /\ prev_start = Snapshot
    /\ cycle_orders = 0
    /\ faulted = FALSE
    /\ prev_faulted = FALSE

\* an agent whose strategy and journal never raise
InitAgent ==
    /\ InitOrchestrator
    /\ analysis = [s \in Symbols |-> "ok"]

Init == InitAgent /\ InitSession /\ InitGateway /\ InitFacade /\ InitChain
           /\ config_symbols = ConfiguredSymbols

\* the agent running its cycles
Next ==
    \/ CycleRefresh
    \/ CycleAnalyze
    \/ CycleCloseWeak
    \/ CycleReallocate
    \/ CycleOpen
    \/ PriceUpdate
    \/ SignalUpdate
    \/ BrokerConnect
    \/ ConnectionLoss
    \/ IBFill

Spec == Init /\ [][Next]_vars

\* the agent driven through execute_signal by a client
NextAPI ==
    \/ ExecuteSignalCall
    \/ PriceUpdate
    \/ BrokerConnect
    \/ ConnectionLoss
    \/ IBFill

InitAPI ==
    /\ Init
    /\ max_new_positions = 5

SpecAPI == InitAPI /\ [][NextAPI]_vars

\* the risk rule called by a client of a dry-run agent that opens and closes positions
NextRisk ==
    \/ ExecuteSignalCall
    \/ CheckRiskManagementCall
    \/ PriceUpdate

InitRisk ==
    /\ Init
    /\ dry_run
    /\ max_new_positions = 5

SpecRisk == InitRisk /\ [][NextRisk]_vars

\* the session of a connected IBBroker: a caller thread and the thread of the callbacks
InitClient ==
    /\ InitAgent
    /\ ~dry_run
    /\ broker_kind = "ib"
    /\ max_new_positions = 5
    /\ ~account_summary.present
    /\ InitSession
    /\ InitGateway
    /\ InitFacade
    /\ InitChain
    /\ config_symbols = ConfiguredSymbols

NextSession ==
    \/ GetMarketData
    \/ SendMarketData
    \/ PollMarketData
    \/ RequestHistoricalData
    \/ PollHistoricalData
    \/ TickPrice
    \/ TickSize
    \/ TickString
    \/ ErrorCallback
    \/ HistoricalData
    \/ HistoricalDataEnd
    \/ ConnectionClosed

SpecSession == InitClient /\ [][NextSession]_vars

\* an IBBroker from its construction: connect(), the handshake, threads placing orders
NextGateway ==
    \/ Connect
    \/ PollConnect
    \/ NextValidId
    \/ \E t \in Threads :
         \/ PlaceOrderCall(t)
         \/ PlaceOrderCheck(t)
         \/ PlaceOrderRead(t)
         \/ PlaceOrderLoad(t)
         \/ PlaceOrderStore(t)
         \/ PlaceOrderSend(t)
         \/ BracketCall(t)
         \/ BracketSend(t)
         \/ BracketAdvance(t)

SpecGateway == InitClient /\ [][NextGateway]_vars

\* a caller of the IBBroker methods and the thread of the position callback
\* an IBBroker over a fresh session, with or without an account summary received
InitBroker ==
    /\ InitAgent
    /\ ~dry_run
    /\ broker_kind = "ib"
    /\ max_new_positions = 5
    /\ InitSession
    /\ InitGateway
    /\ InitFacade
    /\ InitChain
    /\ config_symbols = ConfiguredSymbols

NextFacade ==
    \/ Connect
    \/ PollConnect
    \/ NextValidId
    \/ PositionCallback
    \/ GetPosition
    \/ GetCurrentHolding
    \/ HoldingGetPosition
    \/ ValidateOrderCall

SpecFacade == InitBroker /\ [][NextFacade]_vars

NextOrders ==
    \/ Connect
    \/ PollConnect
    \/ NextValidId
    \/ PositionCallback
    \/ ClosePositionCall

SpecOrders == InitBroker /\ [][NextOrders]_vars

\* the chain of a dry-run agent, over every list of providers
InitProviders ==
    /\ InitAgent
    /\ dry_run
    /\ max_new_positions = 5
    /\ InitSession
    /\ InitGateway
    /\ InitFacade
    /\ providers \in ProviderChains
    /\ fetched = NoFetch
    /\ config_symbols = ConfiguredSymbols

NextProviders ==
    \/ FetchMarketData
    \/ ChainGetHistoricalData
    \/ ProviderAvailability

SpecProviders == InitProviders /\ [][NextProviders]_vars

\* a dry-run agent whose configuration leaves symbols out, and a client that
\* calls execute_signal for any symbol between the cycles
InitUniverse ==
    /\ InitAgent
    /\ dry_run
    /\ max_new_positions = 5
    /\ InitSession
    /\ InitGateway
    /\ InitFacade
    /\ InitChain
    /\ config_symbols \in SymbolConfigs

NextUniverse ==
    \/ CycleRefresh
    \/ CycleAnalyze
    \/ CycleCloseWeak
    \/ CycleReallocate
    \/ CycleOpen
    \/ ExecuteSignalCall
    \/ SignalUpdate

SpecUniverse == InitUniverse /\ [][NextUniverse]_vars

\* a dry-run agent for which the analysis of at most one symbol goes wrong, and
\* a client that calls execute_signal between the cycles
AnalysisInits ==
    {f \in [Symbols -> AnalysisOutcomes] : Cardinality({s \in Symbols : f[s] # "ok"}) <= 1}

InitIsolation ==
    /\ InitOrchestrator
    /\ dry_run
    /\ max_new_positions = 5
    /\ analysis \in AnalysisInits
    /\ InitSession
    /\ InitGateway
    /\ InitFacade
    /\ InitChain
    /\ config_symbols = ConfiguredSymbols

NextIsolation ==
    \/ CycleRefresh
    \/ CycleAnalyze
    \/ CycleCloseWeak
    \/ CycleReallocate
    \/ CycleOpen
    \/ ExecuteSignalCall
    \/ PriceUpdate
    \/ SignalUpdate

SpecIsolation == InitIsolation /\ [][NextIsolation]_vars

NextChange ==
    \/ Connect
    \/ PollConnect
    \/ NextValidId
    \/ PositionCallback
    \/ ExecutePositionChange
    \/ ExecuteOpen

SpecChange == InitBroker /\ [][NextChange]_vars

\* ------------------------------------------------------------------------
\* Properties of a cycle (read on the history of the calls of the cycle)
\* ------------------------------------------------------------------------

\* C1: within one run_analysis_cycle no close (execute_signal with SELL) follows
\* an open (execute_signal with BUY): every weak-signal close is issued before
\* the first open of the cycle.
C1_ClosesBeforeOpens ==
    \A i, j \in 1..Len(trace) :
        (i < j /\ trace[i].fn = "execute_signal" /\ trace[i].action = "BUY")
            => ~(trace[j].fn = "execute_signal" /\ trace[j].action = "SELL")

\* a cycle that closed a held symbol for its weak score and then opened another
C1_Witness ==
    /\ op = "open"
    /\ \E i, j \in 1..Len(trace) :
         /\ i < j
         /\ trace[i].fn = "execute_signal" /\ trace[i].action = "SELL"
         /\ score[trace[i].symbol] < WeakSignalScore
         /\ \E k \in 1..(i - 1) : /\ trace[k].fn = "check_risk_management"
                                  /\ trace[k].symbol = trace[i].symbol
                                  /\ trace[k].action = "NONE" /\ trace[k].ok
         /\ trace[j].fn = "execute_signal" /\ trace[j].action = "BUY"
         /\ trace[j].symbol # trace[i].symbol

\* C2: when the risk check of a cycle sees a held symbol whose pnl_pct is at or
\* below -stop_loss_pct, the cycle emits a SELL for that symbol, and no BUY is
\* emitted in the cycle before that SELL.
C2_StopLossSellsFirst ==
    \A i \in 1..Len(trace) :
        (/\ trace[i].fn = "check_risk_management"
         /\ trace[i].ok
         /\ (trace[i].price - trace[i].entry_price) * 100 <= -(StopLossPct * trace[i].entry_price))
            => \E j \in (i + 1)..Len(trace) :
                 /\ trace[j].fn = "execute_signal" /\ trace[j].action = "SELL"
                 /\ trace[j].symbol = trace[i].symbol
                 /\ \A k \in 1..j : ~(trace[k].fn = "execute_signal" /\ trace[k].action = "BUY")

\* a cycle that stopped a loss of exactly stop_loss_pct and later opened another symbol
C2_Witness ==
    /\ op = "open"
    /\ \E i, j \in 1..Len(trace) :
         /\ trace[i].fn = "check_risk_management" /\ trace[i].ok
         /\ (trace[i].price - trace[i].entry_price) * 100 = -(StopLossPct * trace[i].entry_price)
         /\ i < j
         /\ trace[j].fn = "execute_signal" /\ trace[j].action = "BUY"
         /\ trace[j].symbol # trace[i].symbol

\* C3: the dollar value committed to the new positions of a cycle (sum over the
\* orders placed by the opening step of quantity x price) is at most the buying
\* power read at allocation time.
C3_CommittedWithinBuyingPower ==
    (op = "open")
        => SumOver({i \in 1..Len(trace) : /\ trace[i].fn = "place_order"
                                          /\ trace[i].action = "BUY" /\ trace[i].ok},
                   [i \in 1..Len(trace) |-> trace[i].quantity * trace[i].price])
             <= available_buying_power

\* C4: at the end of the capital-reallocation step the sum of the allocated
\* position sizes is at most max_total_exposure x net_liquidation.
C4_AllocationWithinExposure ==
    (op = "reallocate" /\ position_value_each.some)
        => ((Len(positions_to_open) * position_value_each.num) \div position_value_each.den)
               * MaxTotalExposureDen
             <= MaxTotalExposureNum * GetAccountValue(World)

\* C5: a cycle that starts from the prices, signals, broker-side positions and
\* connection of the cycle before it, neither of them disturbed, places no order
\* (no place_order and no close_position call).
C5_SecondRunPlacesNoOrder ==
    (/\ cycles >= 2
     /\ pc = "idle"
     /\ cycle_start = prev_start
     /\ ~faulted /\ ~prev_faulted)
        => cycle_orders = 0

\* ------------------------------------------------------------------------
\* Properties of execute_signal (read on the history of the direct calls)
\* ------------------------------------------------------------------------

\* C6: against MockBroker (immediate fills, connected or in dry-run mode), an
\* execute_signal BUY that opened a position followed by an execute_signal SELL
\* of the same symbol appends exactly two journal records, BUY then SELL, and
\* leaves has_position false.
C6_RoundTrip ==
    \A s \in Symbols : \A i, j \in 1..Len(trace) :
        (/\ op = "execute_signal"
         /\ broker_kind = "mock" /\ (dry_run \/ connected)
         /\ i < j
         /\ trace[i].fn = "execute_signal" /\ trace[i].action = "BUY" /\ trace[i].symbol = s
         /\ trace[j].fn = "execute_signal" /\ trace[j].action = "SELL" /\ trace[j].symbol = s
         /\ \E k \in (i + 1)..(j - 1) : trace[k].fn = "_open_position" /\ trace[k].ok
         /\ \A k \in ((i + 1)..(j - 1)) \cup ((j + 1)..Len(trace)) : trace[k].fn # "execute_signal")
            => /\ Len(journal) = trace[i].journal_len + 2
               /\ journal[Len(journal) - 1].symbol = s /\ journal[Len(journal) - 1].action = "BUY"
               /\ journal[Len(journal)].symbol = s /\ journal[Len(journal)].action = "SELL"
               /\ ~HasPosition(positions, s)

\* a live round trip through the connected MockBroker that has just completed
C6_Witness ==
    /\ op = "execute_signal"
    /\ broker_kind = "mock" /\ ~dry_run /\ connected
    /\ Len(trace) >= 2
    /\ trace[Len(trace)].fn = "_close_position" /\ trace[Len(trace)].ok
    /\ \E i \in 1..Len(trace) : /\ trace[i].fn = "_open_position" /\ trace[i].ok
                                /\ trace[i].symbol = trace[Len(trace)].symbol
    /\ Len(journal) = 2

\* C7: a call of execute_signal in which the order placement of _open_position
\* or the close of _close_position fails writes no journal record and leaves
\* the position table as it was.
C7_FailureLeavesNoRecord ==
    [][(/\ op' = "execute_signal"
        /\ \E k \in (Len(trace) + 1)..Len(trace') :
             /\ trace'[k].fn \in {"_open_position", "_close_position"}
             /\ trace'[k].action = "place_failed")
          => (journal' = journal /\ positions' = positions)]_vars

\* the broker failed to close a position that the table holds
C7_Witness ==
    /\ op = "execute_signal"
    /\ Len(trace) >= 1
    /\ trace[Len(trace)].fn = "_close_position" /\ trace[Len(trace)].action = "place_failed"
    /\ HasPosition(positions, trace[Len(trace)].symbol)

\* ------------------------------------------------------------------------
\* Frame of the has_position flag
\* ------------------------------------------------------------------------

\* C8 as stated: has_position goes false->true only in a step where
\* _open_position passed validation and placed an order, and true->false only
\* in a step with a close request; nothing else, the refresh included, changes it.
C8_OnlyOpenAndClose ==
    [][\A s \in Symbols :
         LET new == IF op' = "refresh" THEN {} ELSE (Len(trace) + 1)..Len(trace')
         IN /\ (~HasPosition(positions, s) /\ HasPosition(positions', s))
                 => \E k \in new : /\ trace'[k].fn = "_open_position" /\ trace'[k].symbol = s
                                   /\ trace'[k].ok
                                   /\ \E m \in new : /\ m < k /\ trace'[m].fn = "place_order"
                                                     /\ trace'[m].symbol = s /\ trace'[m].ok
            /\ (HasPosition(positions, s) /\ ~HasPosition(positions', s))
                 => \E k \in new : trace'[k].fn = "_close_position" /\ trace'[k].symbol = s
      ]_vars

\* C8 as the code has it: has_position goes false->true only in a step where
\* _open_position succeeded (in live mode after a placed order, in dry-run mode
\* without one), and true->false only in a step where _close_position succeeded
\* or in the portfolio refresh of a connected broker that reports no position.
C8_OpenCloseAndRefresh ==
    [][\A s \in Symbols :
         LET new == IF op' = "refresh" THEN {} ELSE (Len(trace) + 1)..Len(trace')
         IN /\ (~HasPosition(positions, s) /\ HasPosition(positions', s))
                 => \E k \in new : /\ trace'[k].fn = "_open_position" /\ trace'[k].symbol = s
                                   /\ trace'[k].ok
                                   /\ (dry_run \/ \E m \in new : /\ m < k /\ trace'[m].fn = "place_order"
                                                                 /\ trace'[m].symbol = s /\ trace'[m].ok)
            /\ (HasPosition(positions, s) /\ ~HasPosition(positions', s))
                 => \/ \E k \in new : /\ trace'[k].fn = "_close_position" /\ trace'[k].symbol = s
                                      /\ trace'[k].ok
                    \/ /\ op' = "refresh"
                       /\ IsConnected
                       /\ \A x \in Symbols : ~broker_positions[x].present
      ]_vars

\* the refresh has just cleared the flag of a symbol whose last journal record is its BUY
C8_Witness ==
    /\ op = "refresh"
    /\ \E s \in Symbols :
         /\ positions[s].tracked /\ ~positions[s].has_position
         /\ \E i \in 1..Len(journal) :
              /\ journal[i].symbol = s /\ journal[i].action = "BUY"
              /\ \A k \in (i + 1)..Len(journal) : journal[k].symbol # s

\* ------------------------------------------------------------------------
\* Properties of the market-data session
\* ------------------------------------------------------------------------

\* C9: a blocking wrapper whose request gets no callback (none for the symbol of
\* a get_market_data, none for the id of a request_historical_data) keeps
\* polling without ever waiting for a lock, and returns None once its timeout
\* (5 s, 10 s) has elapsed, at most one polling turn late.
C9_SessionTimeout ==
    /\ (call.state = "returned" /\ call.req_id > 0 /\ call.quiet)
            => /\ call.result = "None"
               /\ call.elapsed >= Timeout(call.fn)
               /\ call.elapsed < Timeout(call.fn) + PollInterval
    /\ (call.state \notin {"none", "returned"} /\ call.quiet)
            => /\ call.state \in {"registered", "polling"}
               /\ lock_holder = "none"
               /\ call.elapsed < Timeout(call.fn) + PollInterval
               /\ ENABLED (SendMarketData \/ PollMarketData \/ PollHistoricalData)

\* both wrappers have timed out on a broker that stayed silent: the market-data
\* request of the first call is still registered, the second call has returned
C9_Witness ==
    /\ callbacks = 0
    /\ active_requests[1] \in SessionSymbols
    /\ call.fn = "request_historical_data"
    /\ call.state = "returned"
    /\ call.result = "None"
    /\ call.elapsed >= HistoricalDataTimeout

\* C10: whatever callbacks interleave with a pending get_market_data, the caller
\* is never left waiting for a lock that nobody will release (it always gets to
\* return a snapshot or None).
C10_CallerNeverBlocked ==
    ~(call.fn = "get_market_data" /\ call.state = "blocked" /\ lock_holder = "caller")

\* ------------------------------------------------------------------------
\* Properties of the IBBroker handshake and of the order-id counter
\* ------------------------------------------------------------------------

\* C11: IBClient.connected is false until a nextValidId has been delivered; the
\* state that a nextValidId(orderId) leaves has connected set and next_order_id
\* equal to orderId; connect() returns True, and IBBroker.connected is set, only
\* when the wait of connect() saw IBClient.connected; a connect() that did not
\* see it returns False and leaves is_connected() false, also when the callback
\* comes late.
C11_ReadyOnlyThroughNextValidId ==
    /\ (handshakes = 0 => ~client_connected)
    /\ (delivered # 0 => client_connected /\ client_next_order_id = delivered)
    /\ (connect_call.state # "returned" => ~ib_connected)
    /\ (ib_connected \/ connect_call.result = "True"
           => client_connected /\ handshakes > 0 /\ connect_call.seen)
    /\ (connect_call.result = "True" => connect_call.elapsed < ConnectTimeout + PollInterval)
    /\ (connect_call.state = "returned" /\ ~connect_call.seen
           => connect_call.result = "False" /\ ~GatewayIsConnected)

\* connect() has returned True after the handshake delivered order id 3
C11_Witness ==
    /\ connect_call.result = "True"
    /\ GatewayIsConnected
    /\ handshakes = 1
    /\ client_next_order_id = 3

\* C13: whatever the interleaving of place_order, place_bracket_order (also by
\* two threads at once) and nextValidId, IBClient.placeOrder is never called
\* with an order id that it has been called with before.
C13_OrderIdsUnique == ~reused

\* ------------------------------------------------------------------------
\* Properties of the risk rule
\* ------------------------------------------------------------------------

\* C17: a call of check_risk_management(symbol, current_price) returns None
\* when the symbol is unknown or its has_position is false; otherwise it returns
\* SELL exactly when (current_price - entry_price) / entry_price is at most
\* -stop_loss_pct or at least take_profit_pct; with an entry of 100.00 it returns
\* SELL at 94.00 and None at 96.00; the call leaves the position table as it was.
C17_RiskCheckIsReference ==
    [][op' = "check_risk_management"
          => LET e == trace'[Len(trace')]
                 held == positions[e.symbol].tracked /\ positions[e.symbol].has_position
                 entry == positions[e.symbol].entry_price
                 reference == IF ~held THEN "NONE"
                              ELSE IF \/ (e.price - entry) * 100 <= -(StopLossPct * entry)
                                      \/ (e.price - entry) * 100 >= TakeProfitPct * entry
                                   THEN "SELL" ELSE "NONE"
             IN /\ Len(trace') = Len(trace) + 1
                /\ e.fn = "check_risk_management"
                /\ e.action = reference
                /\ (held /\ entry = 10000 /\ e.price = 9400 => e.action = "SELL")
                /\ (held /\ entry = 10000 /\ e.price = 9600 => e.action = "NONE")
                /\ positions' = positions]_vars

\* the risk rule has answered SELL for a position entered at 100.00 that a
\* client reports at 94.00
C17_Witness ==
    /\ op = "check_risk_management"
    /\ LET e == trace[Len(trace)]
       IN /\ e.fn = "check_risk_management"
          /\ positions[e.symbol].has_position /\ positions[e.symbol].entry_price = 10000
          /\ e.price = 9400 /\ e.action = "SELL"

\* ------------------------------------------------------------------------
\* Properties of the orchestrator without a broker connection
\* ------------------------------------------------------------------------

\* C15: a step of the cycle taken while broker.is_connected() is false sends
\* no order (no place_order, no close_position), leaves the position table and
\* the journal as they were, and hands over to the next step of the cycle.
C15_FailsClosed ==
    [][(pc' # pc /\ ~IsConnected)
          => /\ positions' = positions
             /\ journal' = journal
             /\ orders' = orders /\ next_order_id' = next_order_id /\ broker_positions' = broker_positions
             /\ \A i \in 1..Len(trace') : trace'[i].fn \in {"place_order", "close_position"} => i <= Len(trace)
             /\ pc' = NextStep(pc)]_vars

\* C15, for the live agent: with dry_run false, a step of the cycle taken while
\* broker.is_connected() is false sends no order, leaves the position table and
\* the journal as they were, and hands over to the next step of the cycle.
C15_LiveFailsClosed ==
    [][(pc' # pc /\ ~dry_run /\ ~IsConnected)
          => /\ positions' = positions
             /\ journal' = journal
             /\ orders' = orders /\ next_order_id' = next_order_id /\ broker_positions' = broker_positions
             /\ \A i \in 1..Len(trace') : trace'[i].fn \in {"place_order", "close_position"} => i <= Len(trace)
             /\ pc' = NextStep(pc)]_vars

\* a live cycle has run to its end without a connection, after trying to close
\* a position or to open one
C15_Witness ==
    /\ ~dry_run
    /\ ~IsConnected
    /\ ~cycle_start.is_connected
    /\ pc = "idle"
    /\ op = "open"
    /\ \E i \in 1..Len(trace) : trace[i].action = "not_connected"

\* ------------------------------------------------------------------------
\* Properties of the trade journal
\* ------------------------------------------------------------------------

\* C18: every step adds to the journal exactly one record for each
\* _open_position or _close_position that completed in it, the record of that
\* symbol and action (BUY for an open, SELL for a close), and the journal before
\* the step is a prefix of the journal after it.
C18_JournalAppendOnly ==
    [][LET completed == {k \in (Len(trace) + 1)..Len(trace') :
                            trace'[k].fn \in {"_open_position", "_close_position"} /\ trace'[k].ok}
       IN /\ Len(journal') = Len(journal) + Cardinality(completed)
          /\ SubSeq(journal', 1, Len(journal)) = journal
          /\ \A k \in completed :
               LET r == journal'[trace'[k].journal_len + 1]
               IN /\ trace'[k].journal_len >= Len(journal)
                  /\ r.symbol = trace'[k].symbol
                  /\ r.action = (IF trace'[k].fn = "_open_position" THEN "BUY" ELSE "SELL")
                  /\ r.dry_run = dry_run]_vars

\* the journal holds the opens of two symbols, in the order they were made
C18_Witness ==
    /\ op = "execute_signal"
    /\ Len(journal) = 2
    /\ journal[1].action = "BUY"
    /\ journal[2].action = "BUY"
    /\ journal[1].symbol # journal[2].symbol
    /\ trace[Len(trace)].fn = "_open_position" /\ trace[Len(trace)].ok

\* ------------------------------------------------------------------------
\* Properties of a rejected order
\* ------------------------------------------------------------------------

\* C19: when validate_order rejects the order of an _open_position or of a
\* _close_position, the step sends no order for that symbol, adds no journal
\* record, leaves the entry of the symbol in the position table as it was, and
\* the cycle makes no second attempt at that action for that symbol.
C19_RejectionSkips ==
    [][\A k \in (Len(trace) + 1)..Len(trace') :
          trace'[k].action = "invalid"
             => LET s == trace'[k].symbol
                IN /\ trace'[k].fn \in {"_open_position", "_close_position"}
                   /\ positions'[s] = positions[s]
                   /\ \A i \in (Len(journal) + 1)..Len(journal') : journal'[i].symbol # s
                   /\ IF k = Len(trace') THEN Len(journal') = trace'[k].journal_len
                      ELSE trace'[k + 1].journal_len = trace'[k].journal_len
                   /\ \A j \in (Len(trace) + 1)..Len(trace') :
                        ~(trace'[j].fn \in {"place_order", "close_position"} /\ trace'[j].symbol = s)
                   /\ \A j \in 1..Len(trace') :
                        j # k => ~(trace'[j].fn = trace'[k].fn /\ trace'[j].symbol = s)
                   /\ \A j \in (k + 1)..Len(trace') :
                        ~(trace'[j].fn \in {"place_order", "close_position"} /\ trace'[j].symbol = s)]_vars

\* a cycle has ended whose opening step saw the broker reject an order, and
\* the symbol is not held
C19_Witness ==
    /\ pc = "idle"
    /\ op = "open"
    /\ \E k \in 1..Len(trace) :
         /\ trace[k].fn = "_open_position" /\ trace[k].action = "invalid"
         /\ ~HasPosition(positions, trace[k].symbol)
         /\ \A j \in 1..Len(trace) : trace[j].fn = "place_order" => trace[j].symbol # trace[k].symbol

\* ------------------------------------------------------------------------
\* Properties of the request correlation
\* ------------------------------------------------------------------------

C20_RejectedOrderSendsNothing ==
    [][\A t \in Threads :
          LET args == placer[t].args
              unsupported == args.order_type \notin {"MKT", "LMT", "STP", "STP LMT"}
              price_missing == \/ args.order_type = "LMT" /\ args.limit_price = 0
                               \/ args.order_type = "STP" /\ args.stop_price = 0
                               \/ args.order_type = "STP LMT" /\ (args.limit_price = 0 \/ args.stop_price = 0)
          IN (/\ placer[t].pc = "check"
              /\ placer'[t] # placer[t]
              /\ ~ib_connected \/ args.quantity <= 0 \/ price_missing \/ unsupported)
                 => /\ placer'[t].pc = "idle"
                    /\ placer'[t].ret = 0
                    /\ client_next_order_id' = client_next_order_id
                    /\ placed' = placed]_vars

\* the only place_order call made so far has returned None on the connected
\* broker: nothing was sent and next_order_id is what nextValidId set
C20_Witness ==
    /\ ib_connected
    /\ placements = 1
    /\ placed = {}
    /\ client_next_order_id = 3
    /\ \E t \in Threads : placer[t].fn = "place_order" /\ placer[t].pc = "idle" /\ placer[t].ret = 0

\* ------------------------------------------------------------------------
\* Properties of the IBBroker methods over the positions cache
\* ------------------------------------------------------------------------

\* C21: a get_current_holding call never comes to a halt inside the method,
\* and what it returns is 'TQQQ' if the cached TQQQ position is > 0, else 'QQQ'
\* if the cached QQQ position is > 0, else 'Cash'.
C21_HoldingAlwaysReturns ==
    facade.fn = "get_current_holding"
       => /\ facade.pc # "blocked"
          /\ facade.pc = "returned"
                => facade.result = IF CachedQuantity(client_positions, "TQQQ") > 0 THEN "TQQQ"
                                   ELSE IF CachedQuantity(client_positions, "QQQ") > 0 THEN "QQQ"
                                   ELSE "Cash"

\* a step in which validate_order is called and returns
ValidateOrderReturns == facade_calls' = facade_calls + 1 /\ facade'.fn = "validate_order"

\* the last price of the snapshot that the call of this step received, 0 for none
AnsweredPrice ==
    IF next_req_id' # next_req_id /\ data_received'[facade'.symbol]
    THEN market_data'[facade'.symbol].close[Len(market_data'[facade'.symbol].close)]
    ELSE 0

ClosePositionReturns == facade_calls' = facade_calls + 1 /\ facade'.fn = "close_position"

\* C24: close_position of a symbol whose cached quantity is 0 or absent returns
\* true and sends no order; for a quantity q > 0 it issues exactly one SELL
\* order of quantity q, for q < 0 exactly one BUY order of quantity |q|, and it
\* returns true exactly when it obtained an order id.
C24_ClosePositionSellsTheQuantity ==
    [][ClosePositionReturns
          => LET q == CachedQuantity(client_positions, facade'.symbol)
                 asked == facade'.asked
             IN /\ q = 0 => facade'.result = "True" /\ asked = <<>> /\ facade'.sent = <<>>
                /\ q > 0 => /\ Len(asked) = 1
                            /\ asked[1].action = "SELL"
                            /\ asked[1].quantity * ShareUnit = q
                /\ q < 0 => /\ Len(asked) = 1
                            /\ asked[1].action = "BUY"
                            /\ asked[1].quantity * ShareUnit = -q
                /\ q # 0 => (facade'.result = "True" <=> Len(facade'.sent) = 1)]_vars

\* C25: close_position of IBBroker returns True if an order was placed and False
\* otherwise, and on a connected broker it returns what MockBroker.close_position
\* returns for the same positions, a symbol with no position included.
C25_ClosePositionAgrees ==
    [][ClosePositionReturns /\ ib_connected
          => /\ (facade'.result = "True") <=> (facade'.sent # <<>>)
             /\ (facade'.result = "True") <=> MockClosePosition(client_positions, facade'.symbol)]_vars

\* C26: execute_position_change closes the old position before it opens the new
\* one. With old held and the close not failing: for a new position other than
\* Cash with a price > 0 it calls place_order exactly twice, the closing order of
\* old and then a BUY of new, and returns true exactly when both were sent; for
\* Cash it places the closing order alone and returns true. A failed close
\* returns false with no BUY after it, and a price <= 0 for the new symbol
\* returns false with no BUY.
C26_CloseBeforeOpen ==
    (facade.fn = "execute_position_change" /\ facade.pc = "returned")
       => LET held == facade.value # 0
              new == facade.target
              supplied == IF new = "TQQQ" THEN facade.prices.tqqq_price ELSE facade.prices.qqq_price
              asked == facade.asked
              Closing(o) == o.symbol = facade.symbol
                               /\ o.action = (IF facade.value > 0 THEN "SELL" ELSE "BUY")
              Opening(o) == o.symbol = new /\ o.action = "BUY"
          IN /\ facade.closed = "failed"
                  => facade.result = "False" /\ held /\ Len(asked) = 1 /\ Closing(asked[1])
             /\ (facade.closed # "failed" /\ new # "Cash" /\ supplied <= 0)
                  => facade.result = "False" /\ Len(asked) = (IF held THEN 1 ELSE 0)
             /\ (facade.closed # "failed" /\ held /\ new # "Cash" /\ supplied > 0)
                  => /\ Len(asked) = 2
                     /\ Closing(asked[1])
                     /\ Opening(asked[2])
                     /\ facade.result = "True" <=> Len(facade.sent) = 2
             /\ (facade.closed # "failed" /\ held /\ new = "Cash")
                  => facade.result = "True" /\ Len(asked) = 1 /\ Closing(asked[1])
                        /\ Len(facade.sent) = 1

\* a change from a held QQQ to TQQQ that sent the SELL and then the BUY
C26_Witness ==
    /\ facade.fn = "execute_position_change"
    /\ facade.pc = "returned"
    /\ facade.symbol = "QQQ"
    /\ facade.target = "TQQQ"
    /\ facade.result = "True"
    /\ Len(facade.sent) = 2
    /\ facade.sent[1].action = "SELL"
    /\ facade.sent[2].action = "BUY"

C28_NoDoubleOpen ==
    \A i, j \in 1..Len(orders) :
        (i < j /\ orders[i].symbol = orders[j].symbol
               /\ orders[i].action = "BUY" /\ orders[j].action = "BUY")
           => \E k \in (i + 1)..(j - 1) :
                 orders[k].symbol = orders[i].symbol /\ orders[k].action = "SELL"

\* C29: after a portfolio refresh made while the broker is connected, every
\* tracked symbol that the broker's position list lacks has has_position false
\* and quantity 0, and every tracked symbol that the list holds has has_position
\* true and the quantity of the broker.
C29_RefreshReconciles ==
    [][(cycles' = cycles + 1 /\ IsConnected)
          => \A s \in Symbols :
                positions[s].tracked
                   => IF broker_positions[s].present
                      THEN /\ positions'[s].has_position
                           /\ positions'[s].quantity = broker_positions[s].quantity
                      ELSE /\ ~positions'[s].has_position
                           /\ positions'[s].quantity = 0]_vars

\* the symbols whose entry of a position table is open
OpenSymbols(pos) == {s \in Symbols : pos[s].tracked /\ pos[s].has_position}

\* the symbols that a history of calls has a risk check for
RiskChecked(history) ==
    {history[i].symbol : i \in {n \in 1..Len(history) : history[n].fn = "check_risk_management"}}

C31_RiskSellBypassesRanking ==
    \A i \in 1..Len(trace) :
        (trace[i].fn = "check_risk_management" /\ trace[i].action = "SELL")
           => /\ i < Len(trace)
              /\ trace[i + 1].fn = "execute_signal"
              /\ trace[i + 1].action = "SELL"
              /\ trace[i + 1].symbol = trace[i].symbol
              /\ \A n \in 1..Len(symbol_scores) : symbol_scores[n].symbol # trace[i].symbol
              /\ \A j \in (i + 2)..Len(trace) :
                    trace[j].fn = "execute_signal" => trace[j].symbol # trace[i].symbol

\* a finished cycle whose risk check closed a symbol with a positive score: the
\* symbol has no position any more and would be a candidate were it ranked
C31_Witness ==
    /\ op = "open"
    /\ \E i \in 1..Len(trace) :
         /\ trace[i].fn = "check_risk_management" /\ trace[i].action = "SELL"
         /\ score[trace[i].symbol] > 0
         /\ ~HasPosition(positions, trace[i].symbol)
         /\ \E j \in (i + 1)..Len(trace) :
              /\ trace[j].fn = "_close_position" /\ trace[j].ok
              /\ trace[j].symbol = trace[i].symbol

\* the symbols of the calls fn(action) in a history of calls
SymbolsOf(history, fn, action) ==
    {history[i].symbol : i \in {n \in 1..Len(history) : history[n].fn = fn /\ history[n].action = action}}

\* the symbols that were analysed with a positive score and without a position:
\* the risk check of a symbol records whether the table held it at that moment
Eligible(history) ==
    {history[i].symbol : i \in {n \in 1..Len(history) : /\ history[n].fn = "check_risk_management"
                                                          /\ ~history[n].ok
                                                          /\ score[history[n].symbol] > 0}}

\* C32: at the end of a cycle the symbols for which an open was attempted are
\* min(max_new_positions, number eligible) of the eligible symbols (analysed,
\* score > 0, no position), each attempted once and reaching _open_position; none of
\* them has a score <= 0 or had a position, and no eligible symbol left out
\* has a strictly higher score than one that was selected.
C32_OpeningCandidates ==
    (op = "open")
       => LET opened == SymbolsOf(trace, "execute_signal", "BUY")
              buy_calls == {n \in 1..Len(trace) : trace[n].fn = "execute_signal" /\ trace[n].action = "BUY"}
              attempts == {n \in 1..Len(trace) : trace[n].fn = "_open_position"}
              eligible == Eligible(trace)
          IN /\ Cardinality(opened) = IF Cardinality(eligible) < max_new_positions
                                       THEN Cardinality(eligible) ELSE max_new_positions
             /\ Cardinality(buy_calls) = Cardinality(opened)
             /\ Cardinality(attempts) = Cardinality(buy_calls)
             /\ opened \subseteq eligible
             /\ \A s \in opened : score[s] > 0
             /\ \A u \in eligible \ opened : \A s \in opened : score[u] <= score[s]

\* a finished cycle that had three eligible symbols, two of them with the same
\* score, and room for two
C32_Witness ==
    /\ op = "open"
    /\ max_new_positions = 2
    /\ Cardinality(Eligible(trace)) = 3
    /\ Cardinality(SymbolsOf(trace, "execute_signal", "BUY")) = 2
    /\ \E u \in Eligible(trace) \ SymbolsOf(trace, "execute_signal", "BUY") :
         \E s \in SymbolsOf(trace, "execute_signal", "BUY") : score[u] = score[s]

\* the symbols of the ranked list
Ranked(items) == {items[n].symbol : n \in 1..Len(items)}

\* C33: in a cycle, a symbol whose analysis fails (no data, or the strategy
\* raises) is skipped: no call of the cycle is for it and it is not ranked; a
\* symbol whose risk-triggered close raises is not ranked either. Every other
\* symbol of the analysis set is risk-checked and then either closed by the risk
\* rule or ranked, and when the cycle ends every ranked symbol that was a
\* candidate for a close or (there being room for all) for an open had its
\* execute_signal call.
C33_PerSymbolIsolation ==
    /\ (op \in {"analyze", "close_weak", "reallocate", "open"})
          => \A s \in symbols_to_analyze :
                IF ~has_data[s] \/ analysis[s] = "raises"
                THEN /\ s \notin Ranked(symbol_scores)
                     /\ \A n \in 1..Len(trace) : trace[n].symbol # s
                ELSE /\ s \in RiskChecked(trace)
                     /\ (s \in Ranked(symbol_scores))
                           # (s \in SymbolsOf(trace, "check_risk_management", "SELL"))
    /\ (op = "open" /\ Cardinality(Symbols) <= max_new_positions)
          => \A n \in 1..Len(symbol_scores) :
                LET x == symbol_scores[n]
                IN /\ (x.has_position /\ x.score < WeakSignalScore)
                         => x.symbol \in SymbolsOf(trace, "execute_signal", "SELL")
                   /\ (~x.has_position /\ x.score > 0)
                         => x.symbol \in SymbolsOf(trace, "execute_signal", "BUY")

\* a finished cycle in which the risk-triggered close of a symbol raised after
\* it had cleared the position, and another symbol was opened afterwards
C33_Witness ==
    /\ op = "open"
    /\ \E s \in symbols_to_analyze :
         /\ analysis[s] = "close_raises"
         /\ s \in SymbolsOf(trace, "check_risk_management", "SELL")
         /\ ~HasPosition(positions, s)
         /\ \A n \in 1..Len(journal) : ~(journal[n].symbol = s /\ journal[n].action = "SELL")
         /\ \E u \in SymbolsOf(trace, "_open_position", "ok") : u # s

\* the order-mutating operations of BrokerInterface
OrderMutating == {"place_order", "place_bracket_order", "close_position", "cancel_order", "modify_order"}

C35_RecordedQuantityIsBought ==
    [][\A s \in Symbols :
          (~dry_run /\ ~HasPosition(positions, s) /\ HasPosition(positions', s))
             => \E n \in (Len(orders) + 1)..Len(orders') :
                   /\ orders'[n].symbol = s
                   /\ orders'[n].action = "BUY"
                   /\ orders'[n].quantity = positions'[s].quantity]_vars

\* C38: in the calls of one cycle no symbol has both an execute_signal(SELL),
\* risk-triggered or weak-signal, and an execute_signal(BUY), and no symbol
\* has more than one execute_signal call.
C38_ClosedAndOpenedDisjoint ==
    /\ SymbolsOf(trace, "execute_signal", "SELL") \cap SymbolsOf(trace, "execute_signal", "BUY") = {}
    /\ \A i, j \in 1..Len(trace) :
          (/\ trace[i].fn = "execute_signal"
           /\ trace[j].fn = "execute_signal"
           /\ trace[i].symbol = trace[j].symbol) => i = j

\* a finished cycle that closed a symbol by the risk rule and opened another,
\* each call changing the position table
C38_Witness ==
    /\ op = "open"
    /\ SymbolsOf(trace, "check_risk_management", "SELL") # {}
    /\ SymbolsOf(trace, "_close_position", "ok") # {}
    /\ SymbolsOf(trace, "_open_position", "ok") # {}

\* ------------------------------------------------------------------------
\* Properties of execute_signal called by a client
\* ------------------------------------------------------------------------

\* C39: an execute_signal call with HOLD, CLOSE_LONG or CLOSE_SHORT, with BUY
\* for a symbol that has an open position, or with SELL for a symbol that has
\* none, makes no further call (none of the broker) and leaves the position
\* table, the journal, the orders and the positions of the broker unchanged.
C39_NoOpOutsideTransitions ==
    [][(op' = "execute_signal" /\ direct' = direct + 1)
          => LET e == trace'[Len(trace) + 1]
             IN (\/ e.action \in {"HOLD", "CLOSE_LONG", "CLOSE_SHORT"}
                 \/ e.action = "BUY" /\ HasPosition(positions, e.symbol)
                 \/ e.action = "SELL" /\ ~HasPosition(positions, e.symbol))
                   => /\ Len(trace') = Len(trace) + 1
                      /\ positions' = positions
                      /\ journal' = journal
                      /\ orders' = orders
                      /\ next_order_id' = next_order_id
                      /\ broker_positions' = broker_positions]_vars

\* a live agent that was told to BUY a symbol it holds, and did nothing
C39_Witness ==
    /\ op = "execute_signal"
    /\ ~dry_run
    /\ trace # <<>>
    /\ trace[Len(trace)].fn = "execute_signal"
    /\ trace[Len(trace)].action = "BUY"
    /\ HasPosition(positions, trace[Len(trace)].symbol)

\* ------------------------------------------------------------------------
\* Properties of the data-provider chain
\* ------------------------------------------------------------------------

\* the available providers that answer with a non-empty table
Serving(ps) == {i \in 1..Len(ps) : ps[i].available /\ ps[i].answer = "data"}

\* C27: fetch_market_data tries the providers in order, skips those that are not
\* available, and returns the data of the first one that answers with a
\* non-empty table; it returns None only if every available provider returned
\* None or an empty table, or raised.
C27_FetchReturnsFirstData ==
    [][(fetched' # fetched /\ fetched'.fn = "fetch_market_data")
          => IF Serving(providers) = {}
             THEN fetched'.result = "None"
             ELSE /\ fetched'.result = "data"
                  /\ fetched'.provider \in Serving(providers)
                  /\ \A i \in Serving(providers) : fetched'.provider <= i]_vars

\* C36: a get_market_data call returns a snapshot only if, after its request
\* was registered, a price callback carrying the id of that request arrived; an
\* error reply, or a reply to an earlier request for the symbol, gives None.
C36_SnapshotIsFresh ==
    (call.fn = "get_market_data" /\ call.state = "returned" /\ call.result = "snapshot")
       => call.fresh

\* C37: whatever callbacks and get_market_data calls the session has seen, the
\* timestamp, close, high, low and volume lists of every symbol have one length,
\* and every entry has low <= close <= high.
C37_BuffersInSync ==
    \A s \in SessionSymbols :
        LET md == market_data[s]
        IN /\ Len(md.timestamp) = Len(md.close)
           /\ Len(md.high) = Len(md.close)
           /\ Len(md.low) = Len(md.close)
           /\ Len(md.volume) = Len(md.close)
           /\ \A i \in 1..Len(md.close) : md.low[i] <= md.close[i] /\ md.close[i] <= md.high[i]

\* a buffer of two prices, the second of them above the running low, recorded
\* for two requests
C37_Witness ==
    \E s \in SessionSymbols :
        /\ Len(market_data[s].close) = 2
        /\ market_data[s].low[2] < market_data[s].close[2]
        /\ calls = 2

\* ------------------------------------------------------------------------
\* Properties of the session under faults
\* ------------------------------------------------------------------------

\* C22: a callback changes the market-data buffers or the 'data received'
\* flags only while it holds the lock under which the caller reads them, that
\* is, never in a step in which another thread holds that lock.
C22_CallbacksHoldTheLock ==
    [][(callbacks' # callbacks /\ (market_data' # market_data \/ data_received' # data_received))
          => lock_holder = "none"]_vars

\* C16: once the socket is closed is_connected() is false, and a call that was
\* in its polling loop when the socket closed is never stuck outside that loop
\* and returns None, no later than one polling turn after its timeout.
C16_LossFailsPollingCalls ==
    /\ (~link_up => ~IsConnected)
    /\ (call.cut => ~link_up /\ call.state \in {"polling", "returned"})
    /\ (call.cut /\ call.state = "returned"
           => call.result = "None" /\ call.elapsed < Timeout(call.fn) + PollInterval)

\* C12: an error callback with a code other than the connection-status codes
\* 2104, 2106, 2158, delivered for a request of the connected session, leaves
\* the session disconnected (is_connected() false).
C12_FaultDisconnects ==
    [][(\E reqId \in ReqIds, errorCode \in ErrorCodes \ {2104, 2106, 2158} :
           IsConnected /\ ErrorDelivery(reqId, errorCode))
       => ~IsConnected']_vars

====
